---- MODULE Spec2Model ----
(***************************************************************************)
(* A state-machine model of the cach cache library: the generational       *)
(* index list (evict/list.rs), the eviction policies built on it, the      *)
(* sharded store (sync.rs), the single-thread store (local.rs), the        *)
(* expiration wrappers (expire.rs) and the Cache trait's provided methods  *)
(* (lib.rs).  Every operator is a translation of the source it names in    *)
(* its comment; panics (unwrap on None, unreachable!, failed assertions)   *)
(* are modelled as a result flag that aborts the program.                  *)
(***************************************************************************)
EXTENDS Integers, Sequences, FiniteSets, TLC

(* ------------------------------ bounds -------------------------------- *)
\* number of distinct keys the callers use
NumKeys == 3
\* number of distinct keys used against the expiration wrappers
NumExpireKeys == 1
\* number of distinct payloads
MaxVal == 1
\* number of pointers (Arc allocations) a run may create
MaxPtrs == 3
\* the same for runs against the generational policy and the wrappers
MaxGenPtrs == 3
MaxExpirePtrs == 3
\* capacity handed to new_shard / new_queue
Capacity == 2
\* log2 of the number of shards (the shard count is a power of two)
ShardBits == 1
\* width of the modelled hash value (u64 in the source)
HashBits == 4
\* largest generation before it wraps to START_GEN (u32::MAX in the source)
GenMax == 6
\* last instant of the injected clock
MaxTime == 3
\* threads reading one entry through the approximate policy
NumThreads == 2
\* the approximate policy's window, in clock units
Window == 2
\* last instant of the clock the approximate policy samples
MaxClock == 5
\* keys of the writers beside an iteration
NumScanKeys == 2
\* pointers the writers beside an iteration may create
MaxScanPtrs == 3
\* buckets of the iterated shard's table at first, and at most
InitBuckets == 4
MaxBuckets == 8
\* buckets iter() visits under one lock (256 in sync.rs)
CHUNK == 2
\* calls of or_insert in a row
OrInsertCalls == 3
\* capacities and shard counts asked of the builder
MaxAskedCapacity == 16
MaxAskedShardBits == 3
\* pointers written through a composed layer, and the largest capacity its
\* shards are made with
MaxChainPtrs == 4
MaxChainCapacity == 2
\* pointers stored under the one key several threads read
MaxReadPtrs == 3
\* pointers written to the shard whose readers forward touches
MaxLruPtrs == 3
\* threads contending for one shard lock
LockThreads == 3
\* calls one thread makes against the shard locks
MaxOpCalls == 2
\* values pushed onto the List that is driven directly
MaxListPtrs == 3
\* last instant of the clock of the expiring queue
MaxListTime == 2
\* threads mutating the entry of one key
MutThreads == 2
\* calls the threads make on the key, all told
MaxMutCalls == 3
\* tasks calling load for the key
NumTasks == 2
\* calls of load, all told
MaxLoadCalls == 3
\* placeholders made for the key
MaxWakers == 3
\* times the cache drops the key
MaxEvicts == 1

Keys == 1..NumKeys
Vals == 1..MaxVal
NoPtr == 0
NumShards == 2 ^ ShardBits
ShardIds == 0..(NumShards - 1)

Max(a, b) == IF a >= b THEN a ELSE b
Min(a, b) == IF a <= b THEN a ELSE b

(* ------------------------- evict/index.rs keys ------------------------ *)
\* Option<Index>::None
NoIndex == -1
\* const START_GEN: Gen = Gen::MIN
START_GEN == 1
\* node.gen.checked_add(1).unwrap_or(START_GEN)
GenIncrement(g) == IF g >= GenMax THEN START_GEN ELSE g + 1
\* struct Key { index, gen }
MkKey(i, g) == [index |-> i, gen |-> g]
\* Option<Key>::None
NoKey == MkKey(NoIndex, 0)

(* --------------------------- evict/list.rs ---------------------------- *)
\* NodeState::Occupied { value, prev, next } with the node's generation
OccupiedNode(v, prev, next, g) ==
    [occ |-> TRUE, value |-> v, prev |-> prev, next |-> next,
     next_free |-> NoKey, gen |-> g]
\* NodeState::Vacant { next_free } with the node's generation
VacantNode(nf, g) ==
    [occ |-> FALSE, value |-> NoPtr, prev |-> NoIndex, next |-> NoIndex,
     next_free |-> nf, gen |-> g]

\* List::with_capacity: empty slab, len 0, head/tail/next_free unset
ListWithCapacity(c) ==
    [nodes |-> <<>>, len |-> 0, head |-> NoIndex, tail |-> NoIndex,
     next_free |-> NoKey, cap |-> c]

\* List::len: the len field
ListLen(l) == l.len
\* List::capacity: the capacity of the nodes vector
ListCapacity(l) == l.cap
\* self.nodes.get(index): is the index inside the slab
InSlab(l, i) == i >= 0 /\ i < Len(l.nodes)
\* self.nodes[index] (0-based in the source)
NodeAt(l, i) == l.nodes[i + 1]
SetNode(l, i, n) == [l EXCEPT !.nodes[i + 1] = n]

\* Vec::push growth of the nodes vector: amortised doubling when full
GrowCap(l) == IF Len(l.nodes) = l.cap THEN Max(2 * l.cap, 4) ELSE l.cap

\* what a list operation hands back: the list, the value taken out (NoPtr
\* for None), the key handed out, and whether it panicked
ListResult(l, v, k, p) == [list |-> l, value |-> v, key |-> k, panic |-> p]
WithValue(r, v) == [r EXCEPT !.value = v]

\* List::prune_link, first half: next's prev := prev, or head := prev
PruneNext(l, prev, next) ==
    IF next # NoIndex
    THEN SetNode(l, next, [NodeAt(l, next) EXCEPT !.prev = prev])
    ELSE [l EXCEPT !.head = prev]
\* List::prune_link, second half: prev's next := next, or tail := next
PrunePrev(l, prev, next) ==
    IF prev # NoIndex
    THEN SetNode(l, prev, [NodeAt(l, prev) EXCEPT !.next = next])
    ELSE [l EXCEPT !.tail = next]
\* List::prune_link: splice prev and next together; unreachable!() on a
\* vacant neighbour
ListPruneLink(l, prev, next) ==
    IF \/ (next # NoIndex /\ ~NodeAt(l, next).occ)
       \/ (prev # NoIndex /\ ~NodeAt(l, prev).occ)
    THEN ListResult(l, NoPtr, NoKey, TRUE)
    ELSE ListResult(PrunePrev(PruneNext(l, prev, next), prev, next),
                    NoPtr, NoKey, FALSE)

\* List::push_tail_with_key: store value v in a fresh or a reused slot and
\* hand the constructor the slot's Key; len, head and tail are not written
ListPushTailWithKey(l, v) ==
    IF l.next_free = NoKey
    THEN ListResult([l EXCEPT !.nodes = Append(l.nodes,
                                  OccupiedNode(v, NoIndex, l.tail, START_GEN)),
                              !.cap = GrowCap(l)],
                    NoPtr, MkKey(Len(l.nodes), START_GEN), FALSE)
    ELSE LET key == l.next_free
             node == NodeAt(l, key.index)
         IN  IF key.gen # node.gen \/ node.occ
             THEN ListResult(l, NoPtr, key, TRUE)
             ELSE ListResult([SetNode(l, key.index,
                                 OccupiedNode(v, NoIndex, l.tail,
                                              GenIncrement(node.gen)))
                              EXCEPT !.next_free = node.next_free],
                             NoPtr, key, FALSE)

\* List::remove, the slot part: vacate it, bump its generation, chain it on
\* the free list
Vacate(l, key) ==
    [SetNode(l, key.index,
             VacantNode(l.next_free, GenIncrement(NodeAt(l, key.index).gen)))
     EXCEPT !.next_free = MkKey(key.index,
                                GenIncrement(NodeAt(l, key.index).gen))]

\* List::remove: None on an unknown index or a generation mismatch, else
\* vacate the slot and unlink it; len is not written
ListRemove(l, key) ==
    IF ~InSlab(l, key.index) THEN ListResult(l, NoPtr, NoKey, FALSE)
    ELSE LET node == NodeAt(l, key.index)
         IN  IF node.gen # key.gen THEN ListResult(l, NoPtr, NoKey, FALSE)
             ELSE IF ~node.occ THEN ListResult(l, NoPtr, NoKey, TRUE)
             ELSE WithValue(ListPruneLink(Vacate(l, key), node.prev, node.next),
                            node.value)

\* List::pop_head: remove the head slot, if any
ListPopHead(l) ==
    IF l.head = NoIndex THEN ListResult(l, NoPtr, NoKey, FALSE)
    ELSE ListRemove(l, MkKey(l.head, NodeAt(l, l.head).gen))

\* the push of push_tail_with_key_and_pop_if_full, after its pop
PushAfterPop(pop, v) ==
    IF pop.panic THEN pop
    ELSE WithValue(ListPushTailWithKey(pop.list, v), pop.value)
\* List::push_tail_with_key_and_pop_if_full: value is the popped head
ListPushTailAndPopIfFull(l, v) ==
    PushAfterPop(IF ListLen(l) = ListCapacity(l) THEN ListPopHead(l)
                 ELSE ListResult(l, NoPtr, NoKey, FALSE), v)

\* the end of List::move_to_tail: the old tail's prev := the moved node
LinkBeforeTail(r, current_tail, index) ==
    IF r.panic THEN r
    ELSE IF ~NodeAt(r.list, current_tail).occ
    THEN ListResult(r.list, NoPtr, NoKey, TRUE)
    ELSE ListResult(SetNode(r.list, current_tail,
                            [NodeAt(r.list, current_tail) EXCEPT !.prev = index]),
                    NoPtr, NoKey, FALSE)

\* List::move_to_tail: no-op on a stale key or on the current tail; unwraps
\* self.tail
ListMoveToTail(l, key) ==
    IF ~InSlab(l, key.index) \/ NodeAt(l, key.index).gen # key.gen
    THEN ListResult(l, NoPtr, NoKey, FALSE)
    ELSE IF l.tail = NoIndex THEN ListResult(l, NoPtr, NoKey, TRUE)
    ELSE IF l.tail = key.index THEN ListResult(l, NoPtr, NoKey, FALSE)
    ELSE LET node == NodeAt(l, key.index)
         IN  IF ~node.occ THEN ListResult(l, NoPtr, NoKey, TRUE)
             ELSE LinkBeforeTail(
                      ListPruneLink(
                          SetNode(l, key.index,
                                  [node EXCEPT !.prev = NoIndex, !.next = l.tail]),
                          node.prev, node.next),
                      l.tail, key.index)

\* List::get: the value of the slot when the generations agree and the
\* slot is occupied
ListGet(l, key) ==
    IF ~InSlab(l, key.index) \/ NodeAt(l, key.index).gen # key.gen
       \/ ~NodeAt(l, key.index).occ
    THEN NoPtr
    ELSE NodeAt(l, key.index).value

\* the pointers held by occupied slots
ListValues(l) == {l.nodes[i].value : i \in {j \in 1..Len(l.nodes) : l.nodes[j].occ}}

(* ------------------------------ variables ----------------------------- *)
VARIABLES
    cfg,        \* which cache was built: store kind and layer
    ded,        \* tasks calling the deduplicating loader for one key
    ent,        \* threads mutating one key's entry through Entry::mutate
    ops,        \* threads running cache operations against the shard locks
    lst,        \* one List driven directly, and as the queue of the expiring policy
    pro,        \* threads touching entries of the generational policy
    grd,        \* threads holding and upgrading guards of one shard lock
    lru,        \* one shard of the sharded store under the least-recently-used policy
    rd,         \* threads reading one key while its layer asks for its removal
    debug,      \* whether the build has debug assertions enabled
    built,      \* a cache builder being configured, and what it built
    chain,      \* one shard of two layers composed with and_then
    ptrs,       \* every pointer allocated so far: its value and layer value
    values,     \* per shard, the pointers in the shard's hash table
    layer,      \* per shard, the layer shard (eviction queues)
    now,        \* the injected clock
    panicked,   \* a panic has aborted the program
    hist,       \* keys inserted and keys evicted, in order
    approx,     \* the approximate-touch layer and its reader threads
    ups,        \* threads upserting one key concurrently
    scan        \* an iteration running beside writers of one shard

vars == <<cfg, debug, ded, ent, ops, lst, pro, grd, lru, rd, built, chain, ptrs, values, layer, now, panicked, hist, approx, ups,
         scan>>

(* -------------------------- sync.rs: hashing -------------------------- *)
HashSpace == 2 ^ HashBits
\* stand-in for hash_builder.hash_one(key): a fixed mixing of the key
Hash(k) == (7 * k + 1) % HashSpace
\* u64::rotate_right on the modelled width
RotateRight(h, n) == (h \div (2 ^ n)) + ((h % (2 ^ n)) * (2 ^ (HashBits - n)))
RECURSIVE Xor(_, _)
\* bitwise exclusive or
Xor(a, b) == IF a = 0 /\ b = 0 THEN 0
             ELSE (((a % 2) + (b % 2)) % 2) + 2 * Xor(a \div 2, b \div 2)
\* SyncCache::hash_and_shard: fold the halves of the hash, mask to a shard
\* (the mask is shards - 1 of a power of two, so the low ShardBits bits)
hash_and_shard(k) ==
    Xor(Hash(k), RotateRight(Hash(k), HashBits \div 2)) % NumShards

(* ------------------------ pointers and stores ------------------------- *)
\* Arc::new(Value { value, layer }): the value's key and payload, its
\* deadline, and the layer value (list Key, generation flag, promo counter)
MkPtr(k, v, e, lk) ==
    [key |-> k, val |-> v, exp |-> e, lkey |-> lk, g0 |-> TRUE, promo |-> 0]

\* a layer shard: its queues (single-queue layers use q0 only)
NewLayerShard(c0, c1) ==
    [q0 |-> ListWithCapacity(c0), q1 |-> ListWithCapacity(c1),
     touched_removed |-> <<>>]

\* The store a handler works on, threaded through its steps, with the
\* handler's locals: the pointers evicted so far, the last list result
\* (popped value, key handed out), the pointers an Evict::insert returned,
\* the layer's read result, the entry found (shard, occupied or expired
\* pointer), the touches and removes it handed to the layer, in order, and
\* the handler's result.  After a panic every step is skipped.
MkStore(vs, ly, ps) ==
    [values |-> vs, layer |-> ly, ptrs |-> ps, panic |-> FALSE,
     evicted |-> <<>>, popped |-> NoPtr, key |-> NoKey, removed |-> <<>>,
     read |-> "Retain", shard |-> 0, occupied |-> NoPtr, expired |-> NoPtr,
     told |-> <<>>, res |-> NoPtr]
CurStore == MkStore(values, layer, ptrs)
Panic(st) == [st EXCEPT !.panic = TRUE]
SetRes(st, p) == IF st.panic THEN st ELSE [st EXCEPT !.res = p]
\* the handler hands the layer a touch or a remove of pointer p
Told(st, what, p) ==
    IF st.panic THEN st ELSE [st EXCEPT !.told = Append(@, <<what, p>>)]

\* a list result written back to queue q of shard s
SetQueue(st, s, q, r) ==
    IF r.panic THEN Panic(st)
    ELSE [st EXCEPT !.layer[s][q] = r.list, !.popped = r.value, !.key = r.key]
\* List operations on queue q of shard s
QPopHead(st, s, q) ==
    IF st.panic THEN st ELSE SetQueue(st, s, q, ListPopHead(st.layer[s][q]))
QPush(st, s, q, v) ==
    IF st.panic THEN st
    ELSE SetQueue(st, s, q, WithValue(ListPushTailWithKey(st.layer[s][q], v),
                                      st.popped))
QPushPop(st, s, q, v) ==
    IF st.panic THEN st
    ELSE SetQueue(st, s, q, ListPushTailAndPopIfFull(st.layer[s][q], v))
QRemove(st, s, q, key) ==
    IF st.panic THEN st ELSE SetQueue(st, s, q, ListRemove(st.layer[s][q], key))
QMoveToTail(st, s, q, key) ==
    IF st.panic THEN st
    ELSE SetQueue(st, s, q, ListMoveToTail(st.layer[s][q], key))

\* RawTable::find by key in one shard (NoPtr when absent)
Find(st, s, k) ==
    LET hit == {p \in st.values[s] : st.ptrs[p].key = k}
    IN  IF hit = {} THEN NoPtr ELSE CHOOSE p \in hit : \A q \in hit : p <= q
\* RawTable::remove(bucket)
TableRemove(st, s, p) ==
    IF st.panic THEN st ELSE [st EXCEPT !.values[s] = @ \ {p}]
\* RawTable::insert_in_slot of the pointer just made
InsertInSlot(st, s) ==
    IF st.panic THEN st ELSE [st EXCEPT !.values[s] = @ \cup {st.res}]
\* a replace that leaves the old pointer in its bucket beside the new one
KeepBucket(st, s, p) ==
    IF st.panic THEN st ELSE [st EXCEPT !.values[s] = @ \cup {st.res}]
\* *bucket = replace.clone(): the bucket of p now holds the pointer just made
ReplaceBucket(st, s, p) ==
    IF st.panic THEN st ELSE [st EXCEPT !.values[s] = (@ \ {p}) \cup {st.res}]

\* the layer in front of the sharded store
LayerKind == IF cfg = "sync_lrt" THEN "lrt" ELSE "none"

\* sync.rs Write::remove of the pointer the layer popped, if any: drop it
\* from the shard's table; expect() panics when the table does not hold it
WriteRemove(st, s) ==
    IF st.panic \/ st.popped = NoPtr THEN st
    ELSE IF st.popped \in st.values[s]
    THEN [st EXCEPT !.values[s] = @ \ {st.popped},
                    !.evicted = Append(@, st.popped)]
    ELSE Panic(st)

\* sync.rs Write::insert / the local store's construct closure: allocate
\* the pointer around the layer value the queue handed out
WriteInsert(st, k, v, e) ==
    IF st.panic THEN st
    ELSE [st EXCEPT !.ptrs = Append(@, MkPtr(k, v, e, st.key)),
                    !.res = Len(st.ptrs) + 1]

\* touch.rs Shard::write, the eviction: pop the head when len == capacity
TouchPop(st, s) ==
    IF st.panic THEN st
    ELSE IF ListLen(st.layer[s].q0) = ListCapacity(st.layer[s].q0)
    THEN QPopHead(st, s, "q0")
    ELSE [st EXCEPT !.popped = NoPtr]

\* layer::Shard::write: LayerNone only makes the pointer; touch.rs evicts
\* the popped head through Write::remove, then pushes the new pointer
ShardWrite(st, s, k, v, e) ==
    IF st.panic THEN st
    ELSE IF LayerKind = "none"
    THEN WriteInsert([st EXCEPT !.key = NoKey], k, v, e)
    ELSE WriteInsert(QPush(WriteRemove(TouchPop(st, s), s), s, "q0",
                           Len(st.ptrs) + 1),
                     k, v, e)

\* layer::Shard::read: Retain by default; touch.rs moves the entry to the
\* tail and retains it
ShardRead(st, s, p) ==
    IF st.panic THEN st
    ELSE IF LayerKind = "none"
    THEN [Told(st, "touch", p) EXCEPT !.read = "Retain"]
    ELSE [QMoveToTail(Told(st, "touch", p), s, "q0", st.ptrs[p].lkey)
          EXCEPT !.read = "Retain"]

\* layer::Shard::iter_read: Retain without reordering (touch.rs), the
\* default read for LayerNone
ShardIterRead(st, s, p) == "Retain"

\* layer::Shard::remove: no-op for LayerNone; touch.rs discards the result
\* of List::remove
ShardRemove(st, s, p) ==
    IF st.panic \/ LayerKind = "none" THEN Told(st, "remove", p)
    ELSE QRemove(Told(st, "remove", p), s, "q0", st.ptrs[p].lkey)

(* ----------------------- sync.rs: the sharded store ------------------- *)
RECURSIVE SumUpTo(_, _)
SumUpTo(vs, s) == IF s < 0 THEN 0 ELSE Cardinality(vs[s]) + SumUpTo(vs, s - 1)
\* SyncCache::len: the sum of the shards' table sizes
len == SumUpTo(values, NumShards - 1)

\* an Entry::Occupied / Entry::Vacant over shard s
Occupied(st, s, p) ==
    IF st.panic THEN st
    ELSE [st EXCEPT !.shard = s, !.occupied = p, !.expired = NoPtr]
Vacant(st, s) == Occupied(st, s, NoPtr)

\* an entry that stays occupied whatever the layer's read answered
RetainAlways(st, s, p) == Occupied(st, s, p)

\* SyncCache::entry after the layer read the found pointer: occupied on
\* Retain; on Remove the pointer leaves layer and table, the entry is vacant
EntryAfterRead(st, s, p) ==
    IF st.panic THEN st
    ELSE IF st.read = "Retain" THEN Occupied(st, s, p)
    ELSE Vacant(TableRemove(ShardRemove(st, s, p), s, p), s)

\* SyncCache::entry: look the key up under the shard's write lock and let
\* the layer read what is found
entry(st, k) ==
    IF Find(st, hash_and_shard(k), k) = NoPtr THEN Vacant(st, hash_and_shard(k))
    ELSE EntryAfterRead(ShardRead(st, hash_and_shard(k),
                                  Find(st, hash_and_shard(k), k)),
                        hash_and_shard(k), Find(st, hash_and_shard(k), k))

\* OccupiedEntry::replace: layer.remove(old), layer.write(new), overwrite
\* the bucket
OccupiedEntryReplace(st, s, p, v, e) ==
    ReplaceBucket(ShardWrite(ShardRemove(st, s, p), s, st.ptrs[p].key, v, e),
                  s, p)

\* OccupiedEntry::remove: take the bucket out of the table, layer.remove
OccupiedEntryRemove(st, s, p) ==
    SetRes(ShardRemove(TableRemove(st, s, p), s, p), p)

\* VacantEntry::insert: layer.write, then insert_in_slot
VacantEntryInsert(st, s, k, v, e) ==
    InsertInSlot(ShardWrite(st, s, k, v, e), s)

\* SyncCache::get after the layer read the found pointer: Retain returns
\* it; Remove takes it out of table and layer, and the read-lock branch
\* still returns it while the write-lock branch returns None
GetAfterRead(st, s, p) ==
    IF st.panic THEN st
    ELSE IF st.read = "Retain" THEN SetRes(st, p)
    ELSE SetRes(ShardRemove(TableRemove(st, s, p), s, p),
                IF LayerKind = "none" THEN p ELSE NoPtr)

\* SyncCache::get
get(st, k) ==
    IF Find(st, hash_and_shard(k), k) = NoPtr THEN SetRes(st, NoPtr)
    ELSE GetAfterRead(ShardRead(st, hash_and_shard(k),
                                Find(st, hash_and_shard(k), k)),
                      hash_and_shard(k), Find(st, hash_and_shard(k), k))

(* ------------------ evict/write.rs: least recently inserted ----------- *)
\* the iterator of evicted pointers Evict::insert returns
Removed(st) ==
    IF st.panic THEN st
    ELSE [st EXCEPT !.removed = IF st.popped = NoPtr THEN <<>> ELSE <<st.popped>>]
\* EvictLeastRecentlyInserted::insert into queue q of the pointer about to
\* be made: push_tail_with_key_and_pop_if_full
LriInsert(st, q, newp) == Removed(QPushPop(st, 0, q, newp))

\* Option::unwrap of what List::remove returned
Unwrap(st) == IF st.panic \/ st.popped # NoPtr THEN st ELSE Panic(st)
\* EvictLeastRecentlyInserted::remove: queue.remove(key).unwrap()
LriRemove(st, q, p) == Unwrap(QRemove(st, 0, q, st.ptrs[p].lkey))

(* --------------- evict/generation.rs: two generations ----------------- *)
\* numerator and denominator of g0_fraction
G0FractionNum == 1
G0FractionDen == 2
\* touches after which the promote policy answers true
PromoteAfter == 3
\* pointers taken back from touched_removed by one insert
TouchedRemovedTake == 4

\* f64::round of a non-negative quotient: halves round away from zero
RoundDiv(n, d) == (2 * n + d) \div (2 * d)
\* new_queue: q0 holds the g0 fraction of the capacity (at least 1), q1 the
\* whole capacity
GenNewQueue(capacity) ==
    NewLayerShard(Max(RoundDiv(G0FractionNum * capacity, G0FractionDen), 1),
                  capacity)

\* Promote::try_touch_promote of the promote-after-N policy: the counter
\* after the touch, and whether the policy answers true
TouchCount(promo) == Min(promo + 1, PromoteAfter)
TryTouchPromote(promo) == promo + 1 >= PromoteAfter

\* Point0::point: debug_assert!(value.g0) guards the access to the key
Point0Panics(ptr) == debug /\ ~ptr.g0

\* the last n elements of a vector, most recent first (Vec::pop n times)
RECURSIVE PopN(_, _)
PopN(sq, n) == IF n = 0 \/ sq = <<>> THEN <<>>
               ELSE <<sq[Len(sq)]>> \o PopN(SubSeq(sq, 1, Len(sq) - 1), n - 1)

\* insert's chain: after what q0 evicted, up to four pointers popped off
\* touched_removed
TakeTouchedRemoved(st) ==
    IF st.panic THEN st
    ELSE [st EXCEPT
            !.removed = @ \o PopN(st.layer[0].touched_removed, TouchedRemovedTake),
            !.layer[0].touched_removed =
                SubSeq(@, 1, Len(@) - Min(Len(@), TouchedRemovedTake))]

\* EvictGenerational...::insert: insert into q0 (with g0 = true)
GenInsert(st, newp) == TakeTouchedRemoved(LriInsert(st, "q0", newp))

\* touch's promotion, the tail: what q1 evicted goes to touched_removed and
\* the pointer's key becomes its q1 key
Promoted(st, p) ==
    IF st.panic THEN st
    ELSE [st EXCEPT !.layer[0].touched_removed = @ \o st.removed,
                    !.ptrs[p].lkey = st.key]

\* touch's promotion after g0 was stored false: g0.remove through Point0,
\* then g1.insert
GenPromote(st, p) ==
    IF Point0Panics(st.ptrs[p]) THEN Panic(st)
    ELSE Promoted(LriInsert(LriRemove(st, "q0", p), "q1", p), p)

\* EvictGenerational...::touch: a g0 pointer counts the touch and is
\* promoted when the policy says so; a g1 pointer is left alone
GenTouch(st, p) ==
    IF st.panic \/ ~st.ptrs[p].g0 THEN st
    ELSE IF ~TryTouchPromote(st.ptrs[p].promo)
    THEN [st EXCEPT !.ptrs[p].promo = TouchCount(@)]
    ELSE GenPromote([st EXCEPT !.ptrs[p].promo = TouchCount(@),
                               !.ptrs[p].g0 = FALSE], p)

\* EvictGenerational...::remove: the body is empty
GenRemove(st, p) == st

(* ------------------ local.rs: the single-thread store ----------------- *)
\* Evict::insert of the configured policy, then the construct closure
EvictInsert(st, k, v, e) ==
    IF st.panic THEN st
    ELSE WriteInsert(IF cfg = "local_gen" THEN GenInsert(st, Len(st.ptrs) + 1)
                     ELSE LriInsert(st, "q0", Len(st.ptrs) + 1),
                     k, v, e)

\* Evict::touch of the configured policy (a no-op for write.rs)
EvictTouch(st, p) ==
    IF cfg = "local_gen" THEN GenTouch(Told(st, "touch", p), p)
    ELSE Told(st, "touch", p)

\* Evict::remove of the configured policy
EvictRemove(st, p) ==
    IF st.panic THEN st
    ELSE IF cfg = "local_gen" THEN GenRemove(Told(st, "remove", p), p)
    ELSE LriRemove(Told(st, "remove", p), "q0", p)

\* the elements of a sequence
Range(sq) == {sq[i] : i \in 1..Len(sq)}
\* the elements of a sequence that are in a set, in order
RECURSIVE Held(_, _)
Held(sq, set) ==
    IF sq = <<>> THEN <<>>
    ELSE (IF Head(sq) \in set THEN <<Head(sq)>> ELSE <<>>) \o Held(Tail(sq), set)

\* remove_entry(ptr_eq) of every evicted pointer from the table
RemoveEvicted(st) ==
    IF st.panic THEN st
    ELSE [st EXCEPT !.values[0] = @ \ Range(st.removed),
                    !.evicted = @ \o Held(st.removed, st.values[0])]

\* LocalCache::entry: find the key; no layer read happens here
LocalEntry(st, k) == Occupied(st, 0, Find(st, 0, k))

\* an occupied entry dropped without a word to the policy
DropUntouched(st, p) == st

\* Drop for local OccupiedEntry: touch the entry it still holds
LocalOccupiedDrop(st, p) == EvictTouch(st, p)

\* local OccupiedEntry::replace: eviction.remove(old), eviction.insert(new),
\* overwrite the bucket, then drop what the insert evicted from the table
LocalReplace(st, p, v, e) ==
    RemoveEvicted(ReplaceBucket(EvictInsert(EvictRemove(st, p),
                                            st.ptrs[p].key, v, e),
                                0, p))

\* local OccupiedEntry::remove: table.remove, then eviction.remove
LocalRemove(st, p) == SetRes(EvictRemove(TableRemove(st, 0, p), p), p)

\* local VacantEntry::insert: eviction.insert, drop the evicted pointers
\* from the table, insert_in_slot
LocalVacantInsert(st, k, v, e) ==
    InsertInSlot(RemoveEvicted(EvictInsert(st, k, v, e)), 0)

(* --------------------- expire.rs: expiration wrappers ----------------- *)
\* the store under the wrappers and under the Cache trait's methods
StoreKind == IF cfg \in {"local_lri", "local_gen"} THEN "local" ELSE "sync"

\* Expire::is_expired of a value carrying a deadline (ExpiryTimeValue)
is_expired(ptr) == ptr.exp <= now

\* the test ExpireCache::locked_entry uses to keep an entry occupied
ExpireKeepsOccupied(ptr) == is_expired(ptr)
\* the test ExpireAtCache::locked_entry uses to keep an entry occupied
ExpireAtKeepsOccupied(ptr) == ptr.exp >= now
\* the filter of ExpireEntry::value / ExpireEntry::pointer
ExpireEntryFilter(ptr) == is_expired(ptr)

\* the store's own locked entry (its entry under the write lock)
InnerLockedEntry(st, k) ==
    IF StoreKind = "local" THEN LocalEntry(st, k) ELSE entry(st, k)

\* the wrappers' locked_entry over the store's: an occupant that fails the
\* wrapper's test becomes Vacant(VacantInner::Expired(occupant))
ExpireLockedEntry(st) ==
    IF st.panic \/ st.occupied = NoPtr THEN st
    ELSE IF \/ cfg = "expire" /\ ~ExpireKeepsOccupied(st.ptrs[st.occupied])
            \/ cfg = "expire_at" /\ ~ExpireAtKeepsOccupied(st.ptrs[st.occupied])
    THEN [st EXCEPT !.occupied = NoPtr, !.expired = st.occupied]
    ELSE st

\* Cache::locked_entry of the built cache
locked_entry(st, k) == ExpireLockedEntry(InnerLockedEntry(st, k))

\* LockedOccupiedEntry::replace of the store
OccupiedReplace(st, s, p, v, e) ==
    IF StoreKind = "local" THEN LocalReplace(st, p, v, e)
    ELSE OccupiedEntryReplace(st, s, p, v, e)
\* LockedOccupiedEntry::remove of the store
OccupiedRemove(st, s, p) ==
    IF StoreKind = "local" THEN LocalRemove(st, p)
    ELSE OccupiedEntryRemove(st, s, p)
\* dropping an occupied entry: the local store touches, the sharded store
\* has no Drop
OccupiedDrop(st, p) ==
    IF StoreKind = "local" THEN LocalOccupiedDrop(st, p) ELSE st
\* LockedOccupiedEntry::into_pointer: the pointer, then the entry drops
OccupiedIntoPointer(st, p) == SetRes(OccupiedDrop(st, p), p)

\* LockedVacantEntry::insert: expire.rs Vacant::insert replaces an expired
\* occupant, otherwise the store's vacant entry inserts
VacantInsert(le, k, v, e) ==
    IF le.expired # NoPtr THEN OccupiedReplace(le, le.shard, le.expired, v, e)
    ELSE IF StoreKind = "local" THEN LocalVacantInsert(le, k, v, e)
    ELSE VacantEntryInsert(le, le.shard, k, v, e)

\* a drop that leaves the occupant where it is
KeepExpired(le) == SetRes(le, NoPtr)
\* Drop for expire.rs Vacant: an expired occupant is removed
VacantDrop(le) ==
    IF le.expired # NoPtr
    THEN SetRes(OccupiedRemove(le, le.shard, le.expired), NoPtr)
    ELSE SetRes(le, NoPtr)

(* ------------------- lib.rs: the Cache trait's methods ---------------- *)
\* the match of Cache::insert on the locked entry
InsertInto(le, k, v, e) ==
    IF le.panic THEN le
    ELSE IF le.occupied # NoPtr
    THEN OccupiedReplace(le, le.shard, le.occupied, v, e)
    ELSE VacantInsert(le, k, v, e)
\* Cache::insert: replace an occupied entry, insert into a vacant one
insert(st, k, v, e) == InsertInto(locked_entry(st, k), k, v, e)

\* the match of Cache::upsert on the locked entry
UpsertInto(le, k, v, e, f) ==
    IF le.panic THEN le
    ELSE IF le.occupied # NoPtr
    THEN IF f THEN OccupiedReplace(le, le.shard, le.occupied, v, e)
         ELSE OccupiedIntoPointer(le, le.occupied)
    ELSE VacantInsert(le, k, v, e)
\* Cache::upsert: f decides whether an occupied entry is replaced
upsert(st, k, v, e, f) == UpsertInto(locked_entry(st, k), k, v, e, f)

\* LockedEntry::or_insert: keep an occupied entry, insert into a vacant one
OrInsertInto(le, k, v, e) ==
    IF le.panic THEN le
    ELSE IF le.occupied # NoPtr THEN OccupiedIntoPointer(le, le.occupied)
    ELSE VacantInsert(le, k, v, e)
\* Cache::or_insert
or_insert(st, k, v, e) == OrInsertInto(locked_entry(st, k), k, v, e)

\* the match of Cache::remove_if on the locked entry: an occupied entry f
\* accepts is removed; any other entry is dropped
RemoveIfFrom(le, f) ==
    IF le.panic THEN le
    ELSE IF le.occupied # NoPtr
    THEN IF f THEN OccupiedRemove(le, le.shard, le.occupied)
         ELSE SetRes(OccupiedDrop(le, le.occupied), NoPtr)
    ELSE VacantDrop(le)
\* Cache::remove_if
remove_if(st, k, f) == RemoveIfFrom(locked_entry(st, k), f)
\* Cache::remove: remove_if with an always-true predicate
remove(st, k) == remove_if(st, k, TRUE)

\* Entry::pointer of the entry Cache::entry made: under a wrapper it is an
\* ExpireEntry, whose pointer() applies its filter; then the entry drops
EntryPointer(le) ==
    IF le.panic \/ le.occupied = NoPtr THEN SetRes(le, NoPtr)
    ELSE IF cfg \in {"expire", "expire_at"}
    THEN SetRes(le, IF ExpireEntryFilter(le.ptrs[le.occupied])
                    THEN le.occupied ELSE NoPtr)
    ELSE OccupiedIntoPointer(le, le.occupied)
\* Cache::get of the trait: self.entry(key).pointer()
entry_pointer(st, k) == EntryPointer(InnerLockedEntry(st, k))

\* get of the built cache: SyncCache has its own, the others the trait's
cache_get(st, k) ==
    IF cfg \in {"sync_none", "sync_lrt"} THEN get(st, k)
    ELSE entry_pointer(st, k)

\* a locked entry looked at and dropped
LookedUp(le) ==
    IF le.panic THEN le
    ELSE IF le.occupied # NoPtr THEN OccupiedIntoPointer(le, le.occupied)
    ELSE VacantDrop(le)
\* looking a key up through Cache::locked_entry
locked_lookup(st, k) == LookedUp(locked_entry(st, k))

\* SyncCache::iter / LocalCache::iter: every pointer goes through
\* iter_read; one the layer rejects is removed from the table
iter(st) ==
    [st EXCEPT !.values =
        [s \in ShardIds |->
            {p \in @[s] : ShardIterRead(st, s, p) = "Retain"}]]

(* ------------------------------- actions ------------------------------ *)
\* deadlines a value may carry (values of the plain stores carry none)
Deadlines == 0..MaxTime
\* keys the callers of the wrappers use
ExpireKeys == 1..NumExpireKeys
\* pointers a run against the built cache may create
PtrBound == IF cfg = "local_gen" THEN MaxGenPtrs
            ELSE IF cfg \in {"expire", "expire_at"} THEN MaxExpirePtrs
            ELSE MaxPtrs

\* per-shard capacity: build_with_layer divides the shard count by the
\* capacity, rounding up; the local store is one table of the capacity
DivCeil(a, b) == (a + b - 1) \div b
CapacityPerShard(shards, capacity) == DivCeil(shards, capacity)
capacity_per_shard ==
    IF StoreKind = "local" THEN Capacity
    ELSE CapacityPerShard(NumShards, Capacity)

\* the call log is kept for the caches with an eviction queue
Logged == cfg \in {"sync_lrt", "local_lri"}
KeysOf(ps, sq) == [i \in 1..Len(sq) |-> ps[sq[i]].key]

\* the pointers a table or a queue still holds
Referenced(st) ==
    UNION {st.values[s] \cup ListValues(st.layer[s].q0)
           \cup ListValues(st.layer[s].q1)
           \cup Range(st.layer[s].touched_removed) : s \in ShardIds}
\* a pointer nothing holds any more: Arc / Rc has dropped its value
Dropped == [key |-> 0, val |-> 0, exp |-> 0, lkey |-> NoKey, g0 |-> FALSE,
            promo |-> 0]
\* the allocations once the handler's own clones are gone
AfterDrop(st) ==
    [p \in 1..Len(st.ptrs) |->
        IF p \in Referenced(st) THEN st.ptrs[p] ELSE Dropped]

\* the state after a handler returned (or panicked)
Commit(st, k, isInsert, isMut) ==
    /\ panicked' = st.panic
    /\ IF st.panic
       THEN UNCHANGED <<ptrs, values, layer, hist>>
       ELSE /\ ptrs' = AfterDrop(st)
            /\ values' = st.values
            /\ layer' = st.layer
            /\ hist' = IF ~Logged THEN hist
                       ELSE [ins |-> IF isInsert THEN Append(hist.ins, k)
                                     ELSE hist.ins,
                             ev |-> hist.ev \o KeysOf(st.ptrs, st.evicted),
                             mut |-> hist.mut \/ isMut]
    /\ UNCHANGED <<cfg, debug, ded, ent, ops, lst, pro, grd, lru, rd, built, chain, now, approx, ups, scan>>

\* cache.insert(value) with value.key() = k
Insert(k, v, e) ==
    /\ ~panicked /\ Len(ptrs) < PtrBound
    /\ Commit(insert(CurStore, k, v, e), k, TRUE, FALSE)

\* cache.get(&k)
Get(k) ==
    /\ ~panicked
    /\ Commit(cache_get(CurStore, k), k, FALSE, FALSE)

\* cache.remove(&k)
Remove(k) ==
    /\ ~panicked
    /\ Commit(remove(CurStore, k), k, FALSE, TRUE)

\* cache.upsert(value, f), f answering whether to replace
Upsert(k, v, e, f) ==
    /\ ~panicked /\ Len(ptrs) < PtrBound
    /\ Commit(upsert(CurStore, k, v, e, f), k, FALSE, TRUE)

\* cache.or_insert(value)
OrInsert(k, v, e) ==
    /\ ~panicked /\ Len(ptrs) < PtrBound
    /\ Commit(or_insert(CurStore, k, v, e), k, FALSE, TRUE)

\* cache.iter() run to its end
Iter ==
    /\ ~panicked
    /\ Commit(iter(CurStore), 0, FALSE, FALSE)

\* cache.locked_entry(&k), the entry dropped after a look
LockedEntry(k) ==
    /\ ~panicked
    /\ Commit(locked_lookup(CurStore, k), k, FALSE, FALSE)

\* the injected clock advances
Tick ==
    /\ ~panicked /\ now < MaxTime
    /\ now' = now + 1
    /\ UNCHANGED <<cfg, debug, ded, ent, ops, lst, pro, grd, lru, rd, built, chain, ptrs, values, layer, panicked, hist, approx, ups,
                   scan>>

(* --------------------------- specifications --------------------------- *)
NoHist == [ins |-> <<>>, ev |-> <<>>, mut |-> FALSE]
NoApprox == [on |-> FALSE]
NoUps == [on |-> FALSE]
NoScan == [on |-> FALSE]
NoBuilder == [on |-> FALSE]
NoChain == [on |-> FALSE]
NoRd == [on |-> FALSE]
NoLru == [on |-> FALSE]
NoGrd == [on |-> FALSE]
NoPro == [on |-> FALSE]
NoLst == [on |-> FALSE]
NoOps == [on |-> FALSE]
NoEnt == [on |-> FALSE]
NoDed == [on |-> FALSE]
\* the machines of the later sections are off, but for the ones kept
RestBut(keep) ==
    /\ ("ded" \in keep \/ ded = NoDed)
    /\ ("ent" \in keep \/ ent = NoEnt)
    /\ ("ops" \in keep \/ ops = NoOps)
    /\ ("lst" \in keep \/ lst = NoLst)
    /\ ("pro" \in keep \/ pro = NoPro)
    /\ ("grd" \in keep \/ grd = NoGrd)
    /\ ("lru" \in keep \/ lru = NoLru)
    /\ ("rd" \in keep \/ rd = NoRd)

InitTables(configs, builds) ==
    /\ cfg \in configs
    /\ debug \in builds
    /\ ptrs = <<>>
    /\ values = [s \in ShardIds |-> {}]
    /\ layer = [s \in ShardIds |->
                  IF cfg = "local_gen" THEN GenNewQueue(capacity_per_shard)
                  ELSE NewLayerShard(capacity_per_shard, capacity_per_shard)]
    /\ now = 0
    /\ panicked = FALSE
    /\ hist = NoHist
InitStore(configs, builds) ==
    /\ InitTables(configs, builds)
    /\ approx = NoApprox /\ ups = NoUps /\ scan = NoScan
    /\ built = NoBuilder /\ chain = NoChain /\ RestBut({})
\* the store left as built while a machine of the later sections runs
Aside(keep) ==
    /\ InitTables({"sync_none"}, {FALSE})
    /\ approx = NoApprox /\ ups = NoUps /\ scan = NoScan
    /\ built = NoBuilder /\ chain = NoChain /\ RestBut(keep)

\* the sharded store with no layer and with the least-recently-touched layer
Init == InitStore({"sync_none", "sync_lrt"}, {FALSE})
Next ==
    \/ \E k \in Keys, v \in Vals : Insert(k, v, 0)
    \/ \E k \in Keys : Get(k)
    \/ \E k \in Keys : Remove(k)
    \/ \E k \in Keys, v \in Vals, f \in BOOLEAN : Upsert(k, v, 0, f)
    \/ \E k \in Keys, v \in Vals : OrInsert(k, v, 0)
    \/ Iter
Spec == Init /\ [][Next]_vars

\* the local store with the least-recently-inserted policy
InitLocal == InitStore({"local_lri"}, {FALSE})
NextLocal ==
    \/ \E k \in Keys, v \in Vals : Insert(k, v, 0)
    \/ \E k \in Keys : Get(k)
    \/ \E k \in Keys : Remove(k)
    \/ \E k \in Keys, v \in Vals, f \in BOOLEAN : Upsert(k, v, 0, f)
    \/ \E k \in Keys, v \in Vals : OrInsert(k, v, 0)
SpecLocal == InitLocal /\ [][NextLocal]_vars

\* the local store with the generational policy, in debug and in release
\* builds
InitGen == InitStore({"local_gen"}, BOOLEAN)
NextGen ==
    \/ \E k \in Keys, v \in Vals : Insert(k, v, 0)
    \/ \E k \in Keys : Get(k)
    \/ \E k \in Keys : Remove(k)
    \/ \E k \in Keys, v \in Vals : OrInsert(k, v, 0)
SpecGen == InitGen /\ [][NextGen]_vars

\* the expiration wrappers around the sharded store, with the clock
InitExpire == InitStore({"expire", "expire_at"}, {FALSE})
NextExpire ==
    \/ \E k \in ExpireKeys, v \in Vals, e \in Deadlines : Insert(k, v, e)
    \/ \E k \in ExpireKeys : Get(k)
    \/ \E k \in ExpireKeys : Remove(k)
    \/ \E k \in ExpireKeys : LockedEntry(k)
    \/ Tick
SpecExpire == InitExpire /\ [][NextExpire]_vars

(* ------------- evict/approx.rs: the approximate touch ----------------- *)
Threads == 1..NumThreads
\* a reader between two calls of touch
Idle == [pc |-> "idle", now |-> 0, last |-> 0]

\* now.checked_duration_since(last).unwrap_or_default()
since_touched(n, last) == IF n >= last THEN n - last ELSE 0
\* the outcome of the unconditional store a careless touch would make
StoreAlways(cur, expected, new) == [ok |-> TRUE, stamp |-> new]
\* AtomicInstant::compare_exchange(last, now): the stamp moves only when
\* it still is the value the reader loaded
compare_exchange(cur, expected, new) ==
    IF cur = expected THEN [ok |-> TRUE, stamp |-> new]
    ELSE [ok |-> FALSE, stamp |-> cur]

\* touch, first statement: let now = self.clock.now()
TouchNow(t) ==
    /\ approx.th[t].pc = "idle"
    /\ approx' = [approx EXCEPT !.th[t] = [pc |-> "load", now |-> approx.clock,
                                          last |-> 0]]
    /\ UNCHANGED <<cfg, debug, ded, ent, ops, lst, pro, grd, lru, rd, built, chain, ptrs, values, layer, now, panicked, hist, ups,
                   scan>>

\* touch: load the entry's stamp; inside the window the touch ends here
TouchLoad(t) ==
    /\ approx.th[t].pc = "load"
    /\ approx' = [approx EXCEPT !.th[t] =
            IF since_touched(approx.th[t].now, approx.stamp) >= Window
            THEN [@ EXCEPT !.pc = "cas", !.last = approx.stamp]
            ELSE Idle]
    /\ UNCHANGED <<cfg, debug, ded, ent, ops, lst, pro, grd, lru, rd, built, chain, ptrs, values, layer, now, panicked, hist, ups,
                   scan>>

\* the stamp and the log of forwarded touches after the exchange r of
\* reader t: a successful exchange calls inner.touch
Forwarded(ap, t, r) ==
    [ap EXCEPT !.stamp = r.stamp,
               !.th[t] = Idle,
               !.fwd = IF r.ok
                       THEN Append(@, [by |-> t, now |-> ap.th[t].now,
                                       done |-> ap.clock])
                       ELSE @]
\* touch: the compare_exchange and, when it succeeds, inner.touch
TouchCas(t) ==
    /\ approx.th[t].pc = "cas"
    /\ approx' = Forwarded(approx, t,
                           compare_exchange(approx.stamp, approx.th[t].last,
                                            approx.th[t].now))
    /\ UNCHANGED <<cfg, debug, ded, ent, ops, lst, pro, grd, lru, rd, built, chain, ptrs, values, layer, now, panicked, hist, ups,
                   scan>>

\* the clock the policy samples advances
ClockTick ==
    /\ approx.clock < MaxClock
    /\ approx' = [approx EXCEPT !.clock = @ + 1]
    /\ UNCHANGED <<cfg, debug, ded, ent, ops, lst, pro, grd, lru, rd, built, chain, ptrs, values, layer, now, panicked, hist, ups,
                   scan>>

\* one entry, inserted at instant 0 (insert stamps it with clock.now()),
\* read by several threads
InitApprox ==
    /\ InitTables({"approx"}, {FALSE})
    /\ approx = [on |-> TRUE, clock |-> 0, stamp |-> 0,
                 th |-> [t \in Threads |-> Idle], fwd |-> <<>>]
    /\ ups = NoUps /\ scan = NoScan /\ built = NoBuilder /\ chain = NoChain /\ RestBut({})
NextApprox ==
    \/ \E t \in Threads : TouchNow(t)
    \/ \E t \in Threads : TouchLoad(t)
    \/ \E t \in Threads : TouchCas(t)
    \/ ClockTick
SpecApprox == InitApprox /\ [][NextApprox]_vars

(* ------------- lib.rs / sync.rs: upserts from several threads --------- *)
\* a thread outside upsert
NoCall == [pc |-> "idle", key |-> 0, examined |-> NoPtr, shard |-> 0]

\* self.shards[shard].write(): granted while no entry holds the guard
WriteLockFree(u, s) == u.lock[s] = 0

\* the entry thread t holds, over the store as it is now
HeldEntry(c) == [CurStore EXCEPT !.shard = c.shard, !.occupied = c.examined]
\* the accepted writes: who wrote, the pointer the merge examined, the
\* pointer the table held for the key when the write landed, the new one
Accepted(lg, t, c, st) ==
    IF st.panic \/ st.res = c.examined THEN lg
    ELSE Append(lg, [by |-> t, key |-> c.key, examined |-> c.examined,
                     replaced |-> Find(CurStore, c.shard, c.key),
                     new |-> st.res])
\* the store and the log once thread t's call came back with st
Returned(t, st) ==
    /\ panicked' = st.panic
    /\ IF st.panic
       THEN UNCHANGED <<ptrs, values, layer>>
       ELSE ptrs' = AfterDrop(st) /\ values' = st.values /\ layer' = st.layer
    /\ ups' = [ups EXCEPT !.lock[ups.th[t].shard] = 0,
                          !.th[t] = NoCall,
                          !.log = Accepted(@, t, ups.th[t], st)]
    /\ UNCHANGED <<cfg, debug, ded, ent, ops, lst, pro, grd, lru, rd, built, chain, now, hist, approx, scan>>

\* the thread once SyncCache::entry came back with the locked entry le
Locked(t, k, le) ==
    /\ panicked' = le.panic
    /\ IF le.panic
       THEN UNCHANGED <<ptrs, values, layer, ups>>
       ELSE /\ ptrs' = le.ptrs /\ values' = le.values /\ layer' = le.layer
            /\ ups' = [ups EXCEPT !.lock[le.shard] = t,
                                  !.th[t] = [pc |-> "locked", key |-> k,
                                             examined |-> le.occupied,
                                             shard |-> le.shard]]
    /\ UNCHANGED <<cfg, debug, ded, ent, ops, lst, pro, grd, lru, rd, built, chain, now, hist, approx, scan>>

\* Cache::upsert, PREFER_LOCKED: self.locked_entry(value.key()) takes the
\* shard's write lock and keeps it in the entry
UpsertEntry(t, k) ==
    /\ ~panicked /\ Len(ptrs) < PtrBound
    /\ ups.locked /\ ups.th[t].pc = "idle"
    /\ WriteLockFree(ups, hash_and_shard(k))
    /\ Locked(t, k, locked_entry(CurStore, k))

\* Cache::upsert, PREFER_LOCKED: the merge f looks at the occupant, the
\* entry is replaced, kept or filled, and the guard drops with the entry
UpsertMerge(t, v, f) ==
    /\ ~panicked /\ ups.th[t].pc = "locked"
    /\ Returned(t, UpsertInto(HeldEntry(ups.th[t]), ups.th[t].key, v, 0, f))

\* Entry::try_mutate(Mutate::Write(value)): the write lands only if the
\* table still holds for the key the pointer the entry loaded
try_mutate(st, c) == Find(st, c.shard, c.key) = c.examined

\* Cache::upsert, not PREFER_LOCKED: self.entry(value.key()) loads the
\* pointer stored for the key
UpsertLoad(t, k) ==
    /\ ~panicked /\ Len(ptrs) < PtrBound
    /\ ~ups.locked /\ ups.th[t].pc = "idle"
    /\ ups' = [ups EXCEPT !.th[t] =
            [pc |-> "loaded", key |-> k,
             examined |-> Find(CurStore, hash_and_shard(k), k),
             shard |-> hash_and_shard(k)]]
    /\ UNCHANGED <<cfg, debug, ded, ent, ops, lst, pro, grd, lru, rd, built, chain, ptrs, values, layer, now, panicked, hist,
                   approx, scan>>

\* Entry::upsert, one turn of its loop: a merge that declines returns the
\* current pointer; otherwise try_mutate writes, or fails and the entry
\* holds the pointer stored by now for the next turn
UpsertTry(t, v, f) ==
    /\ ~panicked /\ ups.th[t].pc = "loaded"
    /\ IF (ups.th[t].examined # NoPtr /\ ~f) \/ try_mutate(CurStore, ups.th[t])
       THEN Returned(t, UpsertInto(HeldEntry(ups.th[t]), ups.th[t].key, v, 0, f))
       ELSE /\ ups' = [ups EXCEPT !.th[t].examined =
                          Find(CurStore, ups.th[t].shard, ups.th[t].key)]
            /\ UNCHANGED <<cfg, debug, ded, ent, ops, lst, pro, grd, lru, rd, built, chain, ptrs, values, layer, now, panicked,
                           hist, approx, scan>>

\* a sharded cache shared by several threads; PREFER_LOCKED is the
\* implementation's constant
InitUpsert ==
    /\ InitTables({"sync_none", "sync_lrt"}, {FALSE})
    /\ \E pl \in BOOLEAN :
        ups = [on |-> TRUE, locked |-> pl, lock |-> [s \in ShardIds |-> 0],
               th |-> [t \in Threads |-> NoCall], log |-> <<>>]
    /\ approx = NoApprox /\ scan = NoScan /\ built = NoBuilder /\ chain = NoChain /\ RestBut({})
NextUpsert ==
    \/ \E t \in Threads, k \in Keys : UpsertEntry(t, k)
    \/ \E t \in Threads, v \in Vals, f \in BOOLEAN : UpsertMerge(t, v, f)
    \/ \E t \in Threads, k \in Keys : UpsertLoad(t, k)
    \/ \E t \in Threads, v \in Vals, f \in BOOLEAN : UpsertTry(t, v, f)
SpecUpsert == InitUpsert /\ [][NextUpsert]_vars

(* ------- sync.rs: iter beside writers, one shard bucket by bucket ------ *)
\* keys the writers of the shard use
ScanKeys == 1..NumScanKeys
\* the shard's RawTable: nb buckets, each full with a pointer or not, and
\* the key of every pointer made so far
NewTable(nb) == [nb |-> nb, ctrl |-> [i \in 0..(nb - 1) |-> NoPtr],
                 key |-> <<>>]
Buckets(tb) == 0..(tb.nb - 1)
\* RawTable::is_bucket_full
FullBuckets(tb) == {i \in Buckets(tb) : tb.ctrl[i] # NoPtr}
\* the pointers in the table
TablePointers(tb) == {tb.ctrl[i] : i \in FullBuckets(tb)}
\* RawTable::find: the bucket holding key k, none when absent
FindBucket(tb, k) == {i \in FullBuckets(tb) : tb.key[tb.ctrl[i]] = k}

\* rehash_in_place: the bucket count stays and an item that sat off its
\* probe start is placed again, in a bucket that is not full
InPlace(tb) ==
    {[tb EXCEPT !.ctrl[j] = tb.ctrl[i], !.ctrl[i] = NoPtr] :
        <<i, j>> \in FullBuckets(tb) \X (Buckets(tb) \ FullBuckets(tb))}
\* resize: twice the buckets; an item of bucket i lands in i or in i + nb,
\* by the next bit of its hash
Resized(tb) ==
    {[nb |-> 2 * tb.nb,
      ctrl |-> [i \in 0..((2 * tb.nb) - 1) |->
                  IF i < tb.nb
                  THEN (IF i \in up THEN NoPtr ELSE tb.ctrl[i])
                  ELSE (IF (i - tb.nb) \in up THEN tb.ctrl[i - tb.nb] ELSE NoPtr)],
      key |-> tb.key] : up \in SUBSET FullBuckets(tb)}
\* RawTable::reserve(1), called by find_or_find_insert_slot before it
\* looks: the table as it is, rehashed in place, or resized. Which one
\* depends on growth_left, which counts tombstones the buckets do not show
reserve(tb) ==
    {tb} \cup InPlace(tb)
         \cup (IF 2 * tb.nb <= MaxBuckets THEN Resized(tb) ELSE {})

\* RawTable::insert_in_slot: a new pointer for key k in a bucket that is
\* not full
insert_in_slot(tb, k) ==
    {[tb EXCEPT !.ctrl[i] = Len(tb.key) + 1, !.key = Append(@, k)] :
        i \in Buckets(tb) \ FullBuckets(tb)}
\* RawTable::remove(bucket) of the bucket holding key k
EraseKey(tb, k) ==
    [tb EXCEPT !.ctrl = [i \in Buckets(tb) |->
                           IF i \in FindBucket(tb, k) THEN NoPtr ELSE tb.ctrl[i]]]

\* the iteration of the shard has not begun
NotIterating == [pc |-> "idle", i |-> 0, buckets_len |-> 0, pointers |-> <<>>,
                 since |-> {}]

\* a writer inserts key k: SyncCache::entry finds the key absent (the table
\* reserves first) and VacantEntry::insert fills the slot
ScanInsert(k) ==
    /\ FindBucket(scan.tb, k) = {} /\ Len(scan.tb.key) < MaxScanPtrs
    /\ \E r \in reserve(scan.tb) : \E tb \in insert_in_slot(r, k) :
          scan' = [scan EXCEPT !.tb = tb]
    /\ UNCHANGED <<cfg, debug, ded, ent, ops, lst, pro, grd, lru, rd, built, chain, ptrs, values, layer, now, panicked, hist,
                   approx, ups>>

\* a writer removes key k: SyncCache::entry finds the key (the table
\* reserves first) and OccupiedEntry::remove erases its bucket
ScanRemove(k) ==
    /\ FindBucket(scan.tb, k) # {}
    /\ \E r \in reserve(scan.tb) :
          scan' = [scan EXCEPT
              !.tb = EraseKey(r, k),
              !.it.since = @ \ {scan.tb.ctrl[i] : i \in FindBucket(scan.tb, k)}]
    /\ UNCHANGED <<cfg, debug, ded, ent, ops, lst, pro, grd, lru, rd, built, chain, ptrs, values, layer, now, panicked, hist,
                   approx, ups>>

\* iter() reaches the shard: the pointers stored now are the ones the
\* iteration can owe
IterStart ==
    /\ scan.it.pc = "idle"
    /\ scan' = [scan EXCEPT !.it = [NotIterating EXCEPT
                                       !.pc = "attempt",
                                       !.since = TablePointers(scan.tb)]]
    /\ UNCHANGED <<cfg, debug, ded, ent, ops, lst, pro, grd, lru, rd, built, chain, ptrs, values, layer, now, panicked, hist,
                   approx, ups>>

\* 'attempt: pointers.clear(), buckets_len read under the read lock
IterAttempt ==
    /\ scan.it.pc = "attempt"
    /\ scan' = [scan EXCEPT !.it.pc = "chunk", !.it.i = 0,
                            !.it.pointers = <<>>,
                            !.it.buckets_len = scan.tb.nb]
    /\ UNCHANGED <<cfg, debug, ded, ent, ops, lst, pro, grd, lru, rd, built, chain, ptrs, values, layer, now, panicked, hist,
                   approx, ups>>

\* the pointers of the full buckets i..(last - 1), in bucket order
RECURSIVE ChunkPointers(_, _, _)
ChunkPointers(tb, i, last) ==
    IF i >= last THEN <<>>
    ELSE IF tb.ctrl[i] # NoPtr
    THEN <<tb.ctrl[i]>> \o ChunkPointers(tb, i + 1, last)
    ELSE ChunkPointers(tb, i + 1, last)
\* the bucket count is still the one the attempt read
SameBuckets(it, tb) == tb.nb = it.buckets_len
\* the iteration after one chunk under the upgradable read lock: a changed
\* bucket count starts the attempt again, otherwise the chunk's pointers
\* are pushed and i moves on; past the last bucket the loop is left
AfterChunk(it, tb) ==
    IF ~SameBuckets(it, tb) THEN [it EXCEPT !.pc = "attempt"]
    ELSE [it EXCEPT
            !.pointers = @ \o ChunkPointers(tb, it.i,
                                            Min(it.buckets_len, it.i + CHUNK)),
            !.i = @ + CHUNK,
            !.pc = IF it.i + CHUNK < it.buckets_len THEN "chunk" ELSE "done"]
IterChunk ==
    /\ scan.it.pc = "chunk"
    /\ scan' = [scan EXCEPT !.it = AfterChunk(scan.it, scan.tb)]
    /\ UNCHANGED <<cfg, debug, ded, ent, ops, lst, pro, grd, lru, rd, built, chain, ptrs, values, layer, now, panicked, hist,
                   approx, ups>>

\* one shard of a layer-less SyncCache whose table spans several chunks,
\* an iterating thread and writers
InitIter ==
    /\ InitTables({"sync_none"}, {FALSE})
    /\ scan = [on |-> TRUE, tb |-> NewTable(InitBuckets), it |-> NotIterating]
    /\ approx = NoApprox /\ ups = NoUps /\ built = NoBuilder /\ chain = NoChain /\ RestBut({})
NextIter ==
    \/ \E k \in ScanKeys : ScanInsert(k)
    \/ \E k \in ScanKeys : ScanRemove(k)
    \/ IterStart
    \/ IterAttempt
    \/ IterChunk
SpecIter == InitIter /\ [][NextIter]_vars

(* ------------------ sync.rs / sharded.rs: the builder ------------------ *)
\* shard counts exact_shards accepts: powers of two
AskedShards == {2 ^ b : b \in 0..MaxAskedShardBits}
\* the capacity under Option::unwrap_or_else: the one asked for, or sixteen
\* per shard
CapacityOr(b) ==
    IF b.capacity = <<>> THEN b.shards * 16 ELSE b.capacity[1]

\* SyncCacheBuilder::exact_shards / ShardedCacheBuilder::exact_shards
ExactShards(s) ==
    /\ built.on /\ built.per_shard = <<>>
    /\ built' = [built EXCEPT !.shards = s]
    /\ UNCHANGED <<cfg, debug, ded, ent, ops, lst, pro, grd, lru, rd, chain, ptrs, values, layer, now, panicked, hist,
                   approx, ups, scan>>
\* SyncCacheBuilder::capacity / ShardedCacheBuilder::capacity
AskCapacity(c) ==
    /\ built.on /\ built.per_shard = <<>>
    /\ built' = [built EXCEPT !.capacity = <<c>>]
    /\ UNCHANGED <<cfg, debug, ded, ent, ops, lst, pro, grd, lru, rd, chain, ptrs, values, layer, now, panicked, hist,
                   approx, ups, scan>>
\* build_with_layer / build: every shard's table and layer shard are made
\* with capacity_per_shard
BuildWithLayer ==
    /\ built.on /\ built.per_shard = <<>>
    /\ built' = [built EXCEPT
            !.per_shard = <<CapacityPerShard(built.shards, CapacityOr(built))>>]
    /\ UNCHANGED <<cfg, debug, ded, ent, ops, lst, pro, grd, lru, rd, chain, ptrs, values, layer, now, panicked, hist,
                   approx, ups, scan>>

\* SyncCacheBuilder::default: the shard count follows the machine's
\* parallelism, no capacity is asked for
InitBuilder ==
    /\ InitTables({"sync_none"}, {FALSE})
    /\ \E s \in AskedShards :
          built = [on |-> TRUE, shards |-> s, capacity |-> <<>>,
                   per_shard |-> <<>>]
    /\ approx = NoApprox /\ ups = NoUps /\ scan = NoScan /\ chain = NoChain /\ RestBut({})
NextBuilder ==
    \/ \E s \in AskedShards : ExactShards(s)
    \/ \E c \in 1..MaxAskedCapacity : AskCapacity(c)
    \/ BuildWithLayer
SpecBuilder == InitBuilder /\ [][NextBuilder]_vars

(* ------------------- layer.rs: AndThen, two layers -------------------- *)
\* the child layers a composition is made of: evict/touch.rs and
\* evict/random.rs
ChildKinds == {"lrt", "random", "other"}
\* Layer::new_shard of a child: touch.rs makes a List, random.rs a Bag
ChildNewShard(kind, capacity) ==
    IF kind = "lrt" THEN [kind |-> "lrt", list |-> ListWithCapacity(capacity)]
    ELSE IF kind = "random"
    THEN [kind |-> "random", bag |-> <<>>, cap |-> capacity]
    ELSE [kind |-> "other"]
\* the pointers a child shard holds
ChildTracks(c) ==
    IF c.kind = "lrt" THEN ListValues(c.list)
    ELSE IF c.kind = "random" THEN {c.bag[i] : i \in 1..Len(c.bag)}
    ELSE {}
\* is the child at the capacity at which its write evicts first
ChildFull(c) ==
    IF c.kind = "lrt" THEN ListLen(c.list) = ListCapacity(c.list)
    ELSE c.kind = "random" /\ Len(c.bag) = c.cap
\* a write or remove of the composed shard in progress: a call delivered
\* to a child or to the map is logged as <<target, pointer>>
Called(ch, target, p) == [ch EXCEPT !.calls = Append(@, <<target, p>>)]
\* a swap_remove that leaves the moved element's key as it was
SwapRemoveOnly(ch, side, index) ==
    LET bag == ch[side].bag
        n == Len(bag)
    IN  IF index >= n THEN [ch EXCEPT !.panic = TRUE]
        ELSE IF index = n - 1
        THEN [ch EXCEPT ![side].bag = SubSeq(bag, 1, n - 1),
                        !.taken = bag[n]]
        ELSE [ch EXCEPT ![side].bag = [SubSeq(bag, 1, n - 1)
                                        EXCEPT ![index + 1] = bag[n]],
                        !.taken = bag[index + 1]]
\* Bag::do_remove: swap_remove(index), the element moved into the hole
\* gets the index as its key
BagDoRemove(ch, side, index) ==
    LET bag == ch[side].bag
        n == Len(bag)
    IN  IF index >= n THEN [ch EXCEPT !.panic = TRUE]
        ELSE IF index = n - 1
        THEN [ch EXCEPT ![side].bag = SubSeq(bag, 1, n - 1),
                        !.taken = bag[n]]
        ELSE [ch EXCEPT ![side].bag = [SubSeq(bag, 1, n - 1)
                                        EXCEPT ![index + 1] = bag[n]],
                        !.pv[bag[n]][side] = index,
                        !.taken = bag[index + 1]]
\* the List half of a child's remove or pop: the result's list and value
ListTaken(ch, side, r) ==
    [ch EXCEPT ![side].list = r.list, !.taken = r.value,
               !.panic = @ \/ r.panic]
\* Shard::remove of a child: touch.rs drops List::remove's result,
\* random.rs removes what sits at the pointer's index
ChildRemove(ch, side, p) ==
    IF ch.panic THEN ch
    ELSE IF ch[side].kind = "lrt"
    THEN ListTaken(ch, side, ListRemove(ch[side].list, ch.pv[p][side]))
    ELSE IF ch[side].kind = "random"
    THEN BagDoRemove(ch, side, ch.pv[p][side])
    ELSE ch
\* the eviction at the head of a child's write: pop_head of the List, or
\* Bag::pop at the index the generator draws
ChildPop(ch, side, rnd) ==
    IF ch.panic \/ ~ChildFull(ch[side]) THEN [ch EXCEPT !.taken = NoPtr]
    ELSE IF ch[side].kind = "lrt"
    THEN ListTaken(ch, side, ListPopHead(ch[side].list))
    ELSE IF Len(ch[side].bag) = 0 THEN [ch EXCEPT !.taken = NoPtr]
    ELSE BagDoRemove(ch, side, rnd)
\* the insertion at the end of a child's write: push_tail_with_key /
\* insert_with_key store pointer p, whose layer value is the key handed out
ChildPush(ch, side, p) ==
    IF ch.panic THEN ch
    ELSE IF ch[side].kind = "lrt"
    THEN LET r == ListPushTailWithKey(ch[side].list, p)
         IN  [ch EXCEPT ![side].list = r.list, !.pv[p][side] = r.key,
                        !.panic = @ \/ r.panic]
    ELSE IF ch[side].kind = "random"
    THEN [ch EXCEPT ![side].bag = Append(@, p),
                    !.pv[p][side] = Len(ch[side].bag)]
    ELSE ch
\* the cache's Write::remove: the pointer leaves the hash table
InnerRemove(ch, p) ==
    Called([ch EXCEPT !.map = @ \ {p}], "map", p)
\* WriteB::remove: what B evicted is removed from A and from the map
WriteBRemove(ch) ==
    IF ch.panic \/ ch.taken = NoPtr THEN ch
    ELSE InnerRemove(
             ChildRemove(Called([ch EXCEPT !.evicted = Append(@, <<"b", ch.taken>>)],
                                "a", ch.taken),
                         "a", ch.taken),
             ch.taken)
\* WriteA::remove: what A evicted is noted in removed_by_a and removed
\* from the map
WriteARemove(ch) ==
    IF ch.panic \/ ch.taken = NoPtr THEN ch
    ELSE InnerRemove([ch EXCEPT !.evicted = Append(@, <<"a", ch.taken>>),
                                !.removed_by_a = Append(@, ch.taken)],
                     ch.taken)
\* the loop after B's write: every pointer of removed_by_a is removed
\* from B
RECURSIVE ReplayRemoved(_, _)
ReplayRemoved(ch, i) ==
    IF i > Len(ch.removed_by_a) THEN ch
    ELSE ReplayRemoved(
             ChildRemove(Called(ch, "b", ch.removed_by_a[i]),
                         "b", ch.removed_by_a[i]),
             i + 1)
\* the cache's Write::insert: the new pointer enters the hash table
InnerInsert(ch, p) ==
    IF ch.panic THEN ch ELSE [ch EXCEPT !.map = @ \cup {p}]
\* AndThenShard::write: B's write around A's write around the cache's;
\* ra and rb are what the children's generators draw
AndThenShardWrite(ch, p, ra, rb) ==
    ReplayRemoved(
        ChildPush(
            InnerInsert(
                ChildPush(
                    WriteARemove(
                        ChildPop(WriteBRemove(ChildPop(ch, "b", rb)), "a", ra)),
                    "a", p),
                p),
            "b", p),
        1)
\* AndThenShard::remove: the pointer is removed from A, then from B
AndThenShardRemove(ch, p) ==
    ChildRemove(Called(ChildRemove(Called(ch, "a", p), "a", p), "b", p),
                "b", p)
\* UpgradeReadGuardCellRef::upgrade (the atomic_upgrade of a child's
\* read): the cell's Read guard is taken out and its upgrade stored as
\* Write; in any other state the let-else is unreachable!()
CellUpgrade(ch) ==
    IF ch.cell = "Read" THEN [ch EXCEPT !.cell = "Write"]
    ELSE [ch EXCEPT !.cell = "None", !.panic = TRUE]
\* a child's read that touches the pointer also when iter asks
TouchAlways(ch, side, p, scanning, ans) ==
    IF ch.panic THEN ch
    ELSE IF ch[side].kind = "lrt"
    THEN LET up == CellUpgrade(ch)
             r == ListMoveToTail(ch[side].list, ch.pv[p][side])
         IN  IF up.panic THEN up
             ELSE IF r.panic THEN [up EXCEPT !.panic = TRUE]
             ELSE [up EXCEPT ![side].list = r.list,
                             !.reads = Append(@, side),
                             !.answers = Append(@, "Retain")]
    ELSE [ch EXCEPT !.reads = Append(@, side),
                    !.answers = Append(@, IF ch[side].kind = "other"
                                          THEN ans ELSE "Retain")]
\* Shard::read / iter_read of a child on this.guard(): touch.rs's read
\* upgrades the guard and moves the pointer's key to the tail, its
\* iter_read leaves the order alone; random.rs has the default read,
\* which answers Retain without using the guard; a layer from outside
\* the crate answers ans, also without the guard
ChildRead(ch, side, p, scanning, ans) ==
    IF ch.panic THEN ch
    ELSE IF ch[side].kind = "lrt" /\ ~scanning
    THEN LET up == CellUpgrade(ch)
             r == ListMoveToTail(ch[side].list, ch.pv[p][side])
         IN  IF up.panic THEN up
             ELSE IF r.panic THEN [up EXCEPT !.panic = TRUE]
             ELSE [up EXCEPT ![side].list = r.list,
                             !.reads = Append(@, side),
                             !.answers = Append(@, "Retain")]
    ELSE [ch EXCEPT !.reads = Append(@, side),
                    !.answers = Append(@, IF ch[side].kind = "other"
                                          THEN ans ELSE "Retain")]
\* a composed read that answers what its second child answers
SecondChildOnly(ch, p, scanning, ra, rb) ==
    LET b == ChildRead(ChildRead(ch, "a", p, scanning, ra), "b", p, scanning, rb)
    IN  IF b.panic THEN b ELSE [b EXCEPT !.res = b.answers[Len(b.answers)]]
\* AndThenShard::read and iter_read: one cell around the guard, A's read,
\* and B's read on the same cell when A answered Retain
AndThenShardRead(ch, p, scanning, ra, rb) ==
    LET a == ChildRead(ch, "a", p, scanning, ra)
        b == ChildRead(a, "b", p, scanning, rb)
    IN  IF a.panic THEN a
        ELSE IF a.answers[1] = "Remove" THEN [a EXCEPT !.res = "Remove"]
        ELSE IF b.panic THEN b
        ELSE [b EXCEPT !.res = b.answers[2]]
\* the composed shard at the start of an operation
Fresh(ch, op, p) ==
    [ch EXCEPT !.op = op, !.ptr = p, !.calls = <<>>, !.evicted = <<>>,
               !.removed_by_a = <<>>, !.taken = NoPtr,
               !.cell = "Read", !.reads = <<>>, !.answers = <<>>,
               !.res = "none"]

\* an insert of a vacant entry: the layer's write makes the next pointer
ChainWrite(ra, rb) ==
    /\ chain.on /\ ~chain.panic /\ chain.next <= MaxChainPtrs
    /\ ra < chain.capacity /\ rb < chain.capacity
    /\ chain' = [AndThenShardWrite(Fresh(chain, "write", chain.next),
                                   chain.next, ra, rb)
                 EXCEPT !.next = @ + 1]
    /\ UNCHANGED <<cfg, debug, ded, ent, ops, lst, pro, grd, lru, rd, built, ptrs, values, layer, now, panicked,
                   hist, approx, ups, scan>>
\* a remove of an occupied entry: the pointer leaves the table and the
\* layer
ChainRemove(p) ==
    /\ chain.on /\ ~chain.panic /\ p \in chain.map
    /\ chain' = AndThenShardRemove(
                    [Fresh(chain, "remove", p) EXCEPT !.map = @ \ {p}], p)
    /\ UNCHANGED <<cfg, debug, ded, ent, ops, lst, pro, grd, lru, rd, built, ptrs, values, layer, now, panicked,
                   hist, approx, ups, scan>>

\* what a child's read may answer: the layers of the crate retain
Answers(kind) == IF kind = "other" THEN {"Retain", "Remove"} ELSE {"Retain"}
\* the caller of a read that answered Remove removes the pointer from the
\* layer and from the table
AfterRead(ch, p) ==
    IF ch.panic \/ ch.res # "Remove" THEN ch
    ELSE AndThenShardRemove([ch EXCEPT !.map = @ \ {p}], p)
\* a get of a stored pointer: the layer's read under the shard's lock
ChainRead(p, ra, rb) ==
    /\ chain.on /\ ~chain.panic /\ p \in chain.map
    /\ ra \in Answers(chain.a.kind) /\ rb \in Answers(chain.b.kind)
    /\ chain' = AfterRead(AndThenShardRead(Fresh(chain, "read", p), p,
                                           FALSE, ra, rb), p)
    /\ UNCHANGED <<cfg, debug, ded, ent, ops, lst, pro, grd, lru, rd, built, ptrs, values,
                   layer, now, panicked, hist, approx, ups, scan>>
\* iter meets a stored pointer: the layer's iter_read
ChainIterRead(p, ra, rb) ==
    /\ chain.on /\ ~chain.panic /\ p \in chain.map
    /\ ra \in Answers(chain.a.kind) /\ rb \in Answers(chain.b.kind)
    /\ chain' = AfterRead(AndThenShardRead(Fresh(chain, "iter_read", p), p,
                                           TRUE, ra, rb), p)
    /\ UNCHANGED <<cfg, debug, ded, ent, ops, lst, pro, grd, lru, rd, built, ptrs, values,
                   layer, now, panicked, hist, approx, ups, scan>>

\* AndThen::new_shard: both children are made with the same capacity
InitChain ==
    /\ InitTables({"sync_none"}, {FALSE})
    /\ \E ka \in ChildKinds, kb \in ChildKinds, c \in 1..MaxChainCapacity :
          chain = [on |-> TRUE, capacity |-> c,
                   a |-> ChildNewShard(ka, c), b |-> ChildNewShard(kb, c),
                   pv |-> [p \in 1..MaxChainPtrs |-> [a |-> 0, b |-> 0]],
                   map |-> {}, next |-> 1, op |-> "none", ptr |-> NoPtr,
                   calls |-> <<>>, evicted |-> <<>>, removed_by_a |-> <<>>,
                   taken |-> NoPtr, panic |-> FALSE,
                   cell |-> "Read", reads |-> <<>>, answers |-> <<>>,
                   res |-> "none"]
    /\ approx = NoApprox /\ ups = NoUps /\ scan = NoScan /\ built = NoBuilder
    /\ RestBut({})
NextChain ==
    \/ \E ra \in 0..(MaxChainCapacity - 1), rb \in 0..(MaxChainCapacity - 1) :
          ChainWrite(ra, rb)
    \/ \E p \in 1..MaxChainPtrs : ChainRemove(p)
    \/ \E p \in 1..MaxChainPtrs, ra, rb \in {"Retain", "Remove"} :
          ChainRead(p, ra, rb)
    \/ \E p \in 1..MaxChainPtrs, ra, rb \in {"Retain", "Remove"} :
          ChainIterRead(p, ra, rb)
SpecChain == InitChain /\ [][NextChain]_vars

(* ------------- sync.rs: get under a read lock, Remove answered -------- *)
\* remove_entry(hash, |p| Arc::ptr_eq(p, pointer)) on the bucket of the
\* key, which holds tb: the pointer itself, or nothing
RemoveEntryByKey(tb, p) == tb
remove_entry(tb, p) == IF tb = p THEN p ELSE NoPtr

\* a thread outside get
NotReading == [pc |-> "idle", ptr |-> NoPtr]
\* the pointer left the table and the layer was told to remove it
Unlinked(r, p) ==
    [r EXCEPT !.table = NoPtr, !.unlinked[p] = @ + 1, !.removed[p] = @ + 1]
\* self.shards[shard].read() and values.get: the thread holds the read
\* lock and a clone of the pointer found
GetFind(t) ==
    /\ rd.on /\ rd.th[t].pc = "idle" /\ rd.table # NoPtr
    /\ rd' = [rd EXCEPT !.readers = @ \cup {t},
                        !.th[t] = [pc |-> "read", ptr |-> rd.table]]
    /\ UNCHANGED <<cfg, debug, ded, ent, ops, lst, pro, grd, lru, built, chain, ptrs, values, layer, now,
                   panicked, hist, approx, ups, scan>>
\* Ls::read answers rr: Retain returns the pointer and drops the guard;
\* on Remove the upgrade of the read guard first drops it (lock.rs:36-37)
GetLayerRead(t, rr) ==
    /\ rd.on /\ rd.th[t].pc = "read"
    /\ rd' = [rd EXCEPT
            !.readers = @ \ {t},
            !.th[t] = IF rr = "Retain" THEN NotReading
                      ELSE [@ EXCEPT !.pc = "write"],
            !.condemned = IF rr = "Retain" THEN @ ELSE @ \cup {rd.th[t].ptr}]
    /\ UNCHANGED <<cfg, debug, ded, ent, ops, lst, pro, grd, lru, built, chain, ptrs, values, layer, now,
                   panicked, hist, approx, ups, scan>>
\* lock.write() granted, then remove_entry by identity and, if it found
\* the pointer, layer.remove; the guard drops on return
GetRemoveEntry(t) ==
    /\ rd.on /\ rd.th[t].pc = "write" /\ rd.readers = {}
    /\ LET found == remove_entry(rd.table, rd.th[t].ptr)
           r == [rd EXCEPT !.th[t] = NotReading]
       IN  rd' = IF found = NoPtr THEN r
                 ELSE [Unlinked(r, found) EXCEPT
                          !.log = Append(@, <<rd.th[t].ptr, found>>)]
    /\ UNCHANGED <<cfg, debug, ded, ent, ops, lst, pro, grd, lru, built, chain, ptrs, values, layer, now,
                   panicked, hist, approx, ups, scan>>
\* insert of the key by a writer, under the write lock: a stored pointer
\* is replaced (or removed on the layer's word and the slot refilled)
ReadInsert ==
    /\ rd.on /\ rd.readers = {} /\ rd.next <= MaxReadPtrs
    /\ rd' = [(IF rd.table = NoPtr THEN rd ELSE Unlinked(rd, rd.table))
              EXCEPT !.table = rd.next, !.next = @ + 1]
    /\ UNCHANGED <<cfg, debug, ded, ent, ops, lst, pro, grd, lru, built, chain, ptrs, values, layer, now,
                   panicked, hist, approx, ups, scan>>
\* remove of the key by a writer, under the write lock
ReadRemove ==
    /\ rd.on /\ rd.readers = {} /\ rd.table # NoPtr
    /\ rd' = Unlinked(rd, rd.table)
    /\ UNCHANGED <<cfg, debug, ded, ent, ops, lst, pro, grd, lru, built, chain, ptrs, values, layer, now,
                   panicked, hist, approx, ups, scan>>

\* one key, stored, and no thread inside get
InitRead ==
    /\ Aside({"rd"})
    /\ rd = [on |-> TRUE, table |-> 1, next |-> 2, readers |-> {},
             th |-> [t \in Threads |-> NotReading],
             unlinked |-> [p \in 1..MaxReadPtrs |-> 0],
             removed |-> [p \in 1..MaxReadPtrs |-> 0],
             condemned |-> {}, log |-> <<>>]
NextRead ==
    \/ \E t \in Threads : GetFind(t)
    \/ \E t \in Threads, rr \in {"Retain", "Remove"} : GetLayerRead(t, rr)
    \/ \E t \in Threads : GetRemoveEntry(t)
    \/ ReadInsert
    \/ ReadRemove
SpecRead == InitRead /\ [][NextRead]_vars

(* ------ sharded.rs get, evict/lru.rs, evict/index.rs: IndexList ------- *)
\* IndexList::move_to_tail_locked: assert_eq!(node.gen, key.gen), unwrap
\* of the tail, then the splice List::move_to_tail does
move_to_tail_locked(l, key) ==
    IF NodeAt(l, key.index).gen # key.gen THEN ListResult(l, NoPtr, NoKey, TRUE)
    ELSE ListMoveToTail(l, key)
\* IndexList::remove: assert_eq!(node.gen, key.gen), then as List::remove
IndexListRemove(l, key) ==
    IF NodeAt(l, key.index).gen # key.gen THEN ListResult(l, NoPtr, NoKey, TRUE)
    ELSE ListRemove(l, key)

\* no touch has run yet
NoTouch == [stale |-> FALSE, panic |-> FALSE, moved |-> FALSE]
\* Cache::insert of a new key under the shard's write lock:
\* EvictLeastRecentlyUsed::insert pops the head when len() == capacity(),
\* then pushes the pointer
LruInsert ==
    /\ lru.on /\ ~lru.panic /\ lru.readers = {} /\ lru.next <= MaxLruPtrs
    /\ LET pop == IF ListLen(lru.q) = ListCapacity(lru.q)
                  THEN ListPopHead(lru.q)
                  ELSE ListResult(lru.q, NoPtr, NoKey, FALSE)
           r == PushAfterPop(pop, lru.next)
       IN  lru' = [lru EXCEPT !.q = r.list, !.panic = r.panic,
                              !.key[lru.next] = r.key,
                              !.table = (@ \ {r.value}) \cup {lru.next},
                              !.next = @ + 1]
    /\ UNCHANGED <<cfg, debug, ded, ent, ops, lst, pro, grd, rd, built, chain, ptrs, values, layer, now,
                   panicked, hist, approx, ups, scan>>
\* OccupiedEntry::remove under the shard's write lock: the bucket leaves
\* the table, EvictLeastRecentlyUsed::remove unwraps IndexList::remove
LruRemove(p) ==
    /\ lru.on /\ ~lru.panic /\ lru.readers = {} /\ p \in lru.table
    /\ LET r == IndexListRemove(lru.q, lru.key[p])
       IN  lru' = [lru EXCEPT !.q = r.list, !.table = @ \ {p},
                              !.panic = r.panic \/ r.value = NoPtr]
    /\ UNCHANGED <<cfg, debug, ded, ent, ops, lst, pro, grd, rd, built, chain, ptrs, values, layer, now,
                   panicked, hist, approx, ups, scan>>
\* ShardedCache::get: the read lock, values.get(..)?.clone()
LruGetFind(t, p) ==
    /\ lru.on /\ ~lru.panic /\ lru.th[t] = NoPtr /\ p \in lru.table
    /\ lru' = [lru EXCEPT !.readers = @ \cup {t}, !.th[t] = p]
    /\ UNCHANGED <<cfg, debug, ded, ent, ops, lst, pro, grd, rd, built, chain, ptrs, values, layer, now,
                   panicked, hist, approx, ups, scan>>
\* the touch upgrades the read guard: the read lock is dropped here
LruDropRead(t) ==
    /\ lru.on /\ ~lru.panic /\ t \in lru.readers
    /\ lru' = [lru EXCEPT !.readers = @ \ {t}]
    /\ UNCHANGED <<cfg, debug, ded, ent, ops, lst, pro, grd, rd, built, chain, ptrs, values, layer, now,
                   panicked, hist, approx, ups, scan>>
\* ... and the write lock taken; EvictLeastRecentlyUsed::touch moves the
\* key the pointer carries to the tail, and get returns the pointer
LruTouch(t) ==
    /\ lru.on /\ ~lru.panic /\ lru.th[t] # NoPtr
    /\ lru.readers = {}
    /\ LET r == move_to_tail_locked(lru.q, lru.key[lru.th[t]])
       IN  lru' = [lru EXCEPT !.q = r.list, !.panic = r.panic,
                              !.th[t] = NoPtr,
                              !.last = [stale |-> lru.th[t] \notin lru.table,
                                        panic |-> r.panic,
                                        moved |-> r.list # lru.q]]
    /\ UNCHANGED <<cfg, debug, ded, ent, ops, lst, pro, grd, rd, built, chain, ptrs, values, layer, now,
                   panicked, hist, approx, ups, scan>>

\* a shard built with the capacity and one key stored
InitLru ==
    /\ Aside({"lru"})
    /\ lru = [on |-> TRUE, q |-> ListWithCapacity(Capacity),
              key |-> [p \in 1..MaxLruPtrs |-> NoKey], table |-> {},
              next |-> 1, readers |-> {}, th |-> [t \in Threads |-> NoPtr],
              last |-> NoTouch, panic |-> FALSE]
NextLru ==
    \/ LruInsert
    \/ \E p \in 1..MaxLruPtrs : LruRemove(p)
    \/ \E t \in Threads, p \in 1..MaxLruPtrs : LruGetFind(t, p)
    \/ \E t \in Threads : LruDropRead(t)
    \/ \E t \in Threads : LruTouch(t)
SpecLru == InitLru /\ [][NextLru]_vars

(* ----------------- lock.rs: guards and their upgrades ----------------- *)
\* the threads holding a read guard, an upgradable read guard (also the
\* one waiting inside its upgrade) and the write guard of the lock
ReadHeld(g) == {t \in DOMAIN g : g[t].pc = "read"}
UpgradableHeld(g) == {t \in DOMAIN g : g[t].pc \in {"upread", "upgrading"}}
WriteHeld(g) == {t \in DOMAIN g : g[t].pc = "write"}
\* RwLock::try_write: the lock is granted when nobody holds it
LockFree(g) == ReadHeld(g) \cup UpgradableHeld(g) \cup WriteHeld(g) = {}
\* a thread and what its last try_upgrade answered
Guard(pc, res) == [pc |-> pc, res |-> res]

\* a try_upgrade that answers None whenever the lock is not free for it
TryOrNone(g, t, mapped) ==
    IF g[t].pc = "read"
    THEN IF LockFree([g EXCEPT ![t].pc = "idle"])
         THEN Guard("write", "some") ELSE Guard("idle", "none")
    ELSE IF ReadHeld(g) = {}
         THEN Guard("write", "some") ELSE Guard("idle", "none")
\* UpgradeReadGuard::try_upgrade of the guard thread t holds.
\* RwLockReadGuard: drop(self), lock.try_write().  RwLockUpgradableReadGuard:
\* try_upgrade(self).ok().  MapUpgradeReadGuard has no try_upgrade of its
\* own: the trait's default is Some(self.upgrade()), and upgrade of the
\* wrapped guard waits for the lock (a read guard is dropped first)
try_upgrade(g, t, mapped) ==
    IF mapped
    THEN IF g[t].pc = "read" THEN Guard("waiting", "-")
         ELSE Guard("upgrading", "-")
    ELSE TryOrNone(g, t, mapped)

\* RwLock::read / upgradable_read / write of an idle thread
AcquireRead(t) ==
    /\ grd.on /\ grd.th[t].pc = "idle" /\ WriteHeld(grd.th) = {}
    /\ grd' = [grd EXCEPT !.th[t] = Guard("read", "-")]
    /\ UNCHANGED <<cfg, debug, ded, ent, ops, lst, pro, lru, rd, built, chain, ptrs, values, layer,
                   now, panicked, hist, approx, ups, scan>>
AcquireUpgradable(t) ==
    /\ grd.on /\ grd.th[t].pc = "idle"
    /\ WriteHeld(grd.th) = {} /\ UpgradableHeld(grd.th) = {}
    /\ grd' = [grd EXCEPT !.th[t] = Guard("upread", "-")]
    /\ UNCHANGED <<cfg, debug, ded, ent, ops, lst, pro, lru, rd, built, chain, ptrs, values, layer,
                   now, panicked, hist, approx, ups, scan>>
AcquireWrite(t) ==
    /\ grd.on /\ grd.th[t].pc = "idle" /\ LockFree(grd.th)
    /\ grd' = [grd EXCEPT !.th[t] = Guard("write", "-")]
    /\ UNCHANGED <<cfg, debug, ded, ent, ops, lst, pro, lru, rd, built, chain, ptrs, values, layer,
                   now, panicked, hist, approx, ups, scan>>
\* the guard drops
ReleaseGuard(t) ==
    /\ grd.on /\ grd.th[t].pc \in {"read", "upread", "write"}
    /\ grd' = [grd EXCEPT !.th[t] = Guard("idle", "-")]
    /\ UNCHANGED <<cfg, debug, ded, ent, ops, lst, pro, lru, rd, built, chain, ptrs, values, layer,
                   now, panicked, hist, approx, ups, scan>>
\* a layer's touch calls try_upgrade on the guard it was handed: the
\* thread's own guard, or a MapUpgradeReadGuard around it
TryUpgrade(t, mapped) ==
    /\ grd.on /\ grd.th[t].pc \in {"read", "upread"}
    /\ grd' = [grd EXCEPT !.th[t] = try_upgrade(grd.th, t, mapped)]
    /\ UNCHANGED <<cfg, debug, ded, ent, ops, lst, pro, lru, rd, built, chain, ptrs, values, layer,
                   now, panicked, hist, approx, ups, scan>>
\* a waiting upgrade is granted: lock.write() once the lock is free,
\* RwLockUpgradableReadGuard::upgrade once the readers have left
UpgradeGranted(t) ==
    /\ grd.on
    /\ \/ grd.th[t].pc = "waiting" /\ LockFree(grd.th)
       \/ grd.th[t].pc = "upgrading" /\ ReadHeld(grd.th) = {}
    /\ grd' = [grd EXCEPT !.th[t] = Guard("write", "some")]
    /\ UNCHANGED <<cfg, debug, ded, ent, ops, lst, pro, lru, rd, built, chain, ptrs, values, layer,
                   now, panicked, hist, approx, ups, scan>>

\* one shard lock, held by nobody
InitGuards ==
    /\ Aside({"grd"})
    /\ grd = [on |-> TRUE, th |-> [t \in 1..LockThreads |-> Guard("idle", "-")]]
NextGuards ==
    \/ \E t \in 1..LockThreads : AcquireRead(t)
    \/ \E t \in 1..LockThreads : AcquireUpgradable(t)
    \/ \E t \in 1..LockThreads : AcquireWrite(t)
    \/ \E t \in 1..LockThreads : ReleaseGuard(t)
    \/ \E t \in 1..LockThreads, mapped \in BOOLEAN : TryUpgrade(t, mapped)
    \/ \E t \in 1..LockThreads : UpgradeGranted(t)
SpecGuards == InitGuards /\ [][NextGuards]_vars

(* ------------- evict/generation.rs: concurrent promotion -------------- *)
\* a reader thread between two touches
NoPromotion == [pc |-> "idle", p |-> NoPtr]
\* what the touch leaves behind once it holds the write guard: the second
\* load of g0 decides between the migration and g1.touch, which for the
\* least-recently-inserted G1 does nothing
TouchUpgraded(st, p) ==
    IF st.ptrs[p].g0 THEN GenPromote([st EXCEPT !.ptrs[p].g0 = FALSE], p)
    ELSE st

\* touch under the read guard handed over by get: g0 is loaded and the
\* promote policy counts the touch; when it answers true the thread goes
\* on to upgrade the guard
ProTouchRead(t, k) ==
    LET p == Find(CurStore, 0, k)
    IN  /\ pro.on /\ ~panicked /\ pro.th[t].pc = "idle"
        /\ p # NoPtr /\ ptrs[p].g0
        /\ ptrs' = [ptrs EXCEPT ![p].promo = TouchCount(@)]
        /\ pro' = IF TryTouchPromote(ptrs[p].promo)
                  THEN [pro EXCEPT !.th[t] = [pc |-> "upgrade", p |-> p]]
                  ELSE pro
        /\ UNCHANGED <<cfg, debug, ded, ent, ops, lst, grd, lru, rd, built, chain, values, layer,
                       now, panicked, hist, approx, ups, scan>>
\* UpgradeReadGuard::upgrade(queue) returns and the rest of touch runs
\* under the write guard
ProTouchWrite(t) ==
    LET p == pro.th[t].p
        st == TouchUpgraded(CurStore, p)
    IN  /\ pro.on /\ ~panicked /\ pro.th[t].pc = "upgrade"
        /\ panicked' = st.panic
        /\ IF st.panic THEN UNCHANGED <<ptrs, layer>>
           ELSE ptrs' = st.ptrs /\ layer' = st.layer
        /\ pro' = [pro EXCEPT !.th[t] = NoPromotion,
                              !.began[p] = @ + (IF ptrs[p].g0 THEN 1 ELSE 0),
                              !.seen[p] = @ + 1]
        /\ UNCHANGED <<cfg, debug, ded, ent, ops, lst, grd, lru, rd, built, chain, values,
                       now, hist, approx, ups, scan>>

\* the generational policy behind a store shared by the reader threads
InitPromote ==
    /\ InitTables({"local_gen"}, BOOLEAN)
    /\ approx = NoApprox /\ ups = NoUps /\ scan = NoScan
    /\ built = NoBuilder /\ chain = NoChain /\ RestBut({"pro"})
    /\ pro = [on |-> TRUE, th |-> [t \in Threads |-> NoPromotion],
              began |-> [p \in 1..MaxGenPtrs |-> 0],
              seen |-> [p \in 1..MaxGenPtrs |-> 0]]
NextPromote ==
    \/ \E k \in Keys, v \in Vals : Insert(k, v, 0)
    \/ \E t \in Threads, k \in Keys : ProTouchRead(t, k)
    \/ \E t \in Threads : ProTouchWrite(t)
SpecPromote == InitPromote /\ [][NextPromote]_vars

(* --------- evict/list.rs driven directly; write.rs drain_expired ------- *)
\* entries one drain_expired hands out at most
DrainBatch == 8
\* a sequence without its elements equal to v
RECURSIVE Without(_, _)
Without(sq, v) ==
    IF sq = <<>> THEN <<>>
    ELSE IF Head(sq) = v THEN Without(Tail(sq), v)
    ELSE <<Head(sq)>> \o Without(Tail(sq), v)
\* the list after an operation, with what the operation took out
Applied(ls, op, r, order) ==
    IF r.panic THEN [ls EXCEPT !.panic = TRUE, !.op = op]
    ELSE [ls EXCEPT !.q = r.list, !.op = op, !.order = order,
                    !.evicted = IF r.value = NoPtr THEN <<>> ELSE <<r.value>>]
\* drain_expired: queue.drain() pops heads; take_while pulls an entry,
\* keeps it when expire_at <= now and otherwise drops it and stops;
\* take(8) stops pulling after eight kept entries
RECURSIVE drain_expired(_, _, _)
drain_expired(ls, n, t) ==
    IF ls.panic \/ n = DrainBatch THEN ls
    ELSE LET r == ListPopHead(ls.q)
         IN  IF r.panic THEN [ls EXCEPT !.panic = TRUE]
             ELSE IF r.value = NoPtr THEN ls
             ELSE IF ls.exp[r.value] <= t
             THEN drain_expired([ls EXCEPT !.q = r.list,
                                           !.evicted = Append(@, r.value)],
                                n + 1, t)
             ELSE [ls EXCEPT !.q = r.list]
\* push_tail_with_key of the next value, whose deadline is e: the value
\* keeps the key the list hands out
Pushed(ls, op, e) ==
    LET r == ListPushTailWithKey(ls.q, ls.next)
    IN  IF r.panic THEN [ls EXCEPT !.panic = TRUE, !.op = op]
        ELSE [ls EXCEPT !.q = r.list, !.op = op, !.evicted = <<>>,
                        !.key[ls.next] = r.key, !.exp[ls.next] = e,
                        !.order = Append(@, ls.next), !.next = @ + 1]

\* List::push_tail_with_key
ListPush ==
    /\ lst.on /\ ~lst.panic /\ lst.next <= MaxListPtrs
    /\ lst' = Pushed(lst, "push", 0)
    /\ UNCHANGED <<cfg, debug, ded, ent, ops, pro, grd, lru, rd, built, chain, ptrs, values,
                   layer, now, panicked, hist, approx, ups, scan>>
\* List::pop_head
ListPop ==
    /\ lst.on /\ ~lst.panic
    /\ LET r == ListPopHead(lst.q)
       IN  lst' = Applied(lst, "pop", r, Without(lst.order, r.value))
    /\ UNCHANGED <<cfg, debug, ded, ent, ops, pro, grd, lru, rd, built, chain, ptrs, values,
                   layer, now, panicked, hist, approx, ups, scan>>
\* List::remove with the key value p was given
ListRem(p) ==
    /\ lst.on /\ ~lst.panic /\ p < lst.next
    /\ LET r == ListRemove(lst.q, lst.key[p])
       IN  lst' = Applied(lst, "remove", r, Without(lst.order, r.value))
    /\ UNCHANGED <<cfg, debug, ded, ent, ops, pro, grd, lru, rd, built, chain, ptrs, values,
                   layer, now, panicked, hist, approx, ups, scan>>
\* List::move_to_tail with the key value p was given
ListTouch(p) ==
    /\ lst.on /\ ~lst.panic /\ p < lst.next
    /\ LET r == ListMoveToTail(lst.q, lst.key[p])
           held == InSlab(lst.q, lst.key[p].index)
                   /\ NodeAt(lst.q, lst.key[p].index).gen = lst.key[p].gen
                   /\ NodeAt(lst.q, lst.key[p].index).occ
           v == IF held THEN NodeAt(lst.q, lst.key[p].index).value ELSE NoPtr
       IN  lst' = Applied(lst, "touch", r,
                          IF held THEN Append(Without(lst.order, v), v)
                          ELSE lst.order)
    /\ UNCHANGED <<cfg, debug, ded, ent, ops, pro, grd, lru, rd, built, chain, ptrs, values,
                   layer, now, panicked, hist, approx, ups, scan>>
\* EvictExpiredLeastRecentlyInserted::insert of a value with deadline e:
\* push_tail_with_key, then drain_expired at the clock's now
ExpiredInsert(e) ==
    /\ lst.on /\ ~lst.panic /\ lst.next <= MaxListPtrs
    /\ lst' = [drain_expired(Pushed(lst, "insert", e), 0, lst.now)
               EXCEPT !.before = Append(lst.order, lst.next)]
    /\ UNCHANGED <<cfg, debug, ded, ent, ops, pro, grd, lru, rd, built, chain, ptrs, values,
                   layer, now, panicked, hist, approx, ups, scan>>
\* the injected clock advances
ListTick ==
    /\ lst.on /\ ~lst.panic /\ lst.now < MaxListTime
    /\ lst' = [lst EXCEPT !.now = @ + 1, !.op = "tick"]
    /\ UNCHANGED <<cfg, debug, ded, ent, ops, pro, grd, lru, rd, built, chain, ptrs, values,
                   layer, now, panicked, hist, approx, ups, scan>>

\* List::with_capacity
InitList ==
    /\ Aside({"lst"})
    /\ lst = [on |-> TRUE, q |-> ListWithCapacity(MaxListPtrs), next |-> 1,
              key |-> [p \in 1..MaxListPtrs |-> NoKey],
              exp |-> [p \in 1..MaxListPtrs |-> 0],
              order |-> <<>>, before |-> <<>>, evicted |-> <<>>,
              now |-> 0, op |-> "new", panic |-> FALSE]
NextList ==
    \/ ListPush
    \/ ListPop
    \/ \E p \in 1..MaxListPtrs : ListRem(p)
    \/ \E p \in 1..MaxListPtrs : ListTouch(p)
    \/ \E e \in 0..MaxListTime : ExpiredInsert(e)
    \/ ListTick
SpecList == InitList /\ [][NextList]_vars

(* ---------------- sync.rs: operations and shard locks ----------------- *)
\* threads holding a guard of the given kind on shard s
Holding(th, s, kind) == {t \in DOMAIN th : <<s, kind>> \in th[t].held}
\* RwLock::read, upgradable_read and write can be granted
CanRead(th, s) == Holding(th, s, "write") = {}
CanUpgradable(th, s) ==
    Holding(th, s, "write") = {} /\ Holding(th, s, "upread") = {}
CanWrite(th, s) ==
    Holding(th, s, "write") \cup Holding(th, s, "upread")
        \cup Holding(th, s, "read") = {}
\* the guard is taken
Acquire(held, s, kind) == held \cup {<<s, kind>>}
\* the guards a thread keeps on a shard
KeepGuards(held, s) == held
\* the guards a thread has left once its guard of shard s is dropped
Release(held, s) == {h \in held : h[1] # s}
\* a thread between two calls
NoOp == [op |-> "none", pc |-> "idle", s |-> 0, held |-> {}, calls |-> 0,
         resized |-> FALSE]
\* the operations that take the shard's write lock through entry()
EntryOps == {"entry", "insert", "upsert", "remove"}
\* a write to shard s finished: iterators that sized the shard's table
\* and wait for their chunk may find it resized
Wrote(th, s) ==
    [t \in DOMAIN th |->
        IF th[t].op = "iter" /\ th[t].pc = "chunk" /\ th[t].s = s
        THEN [th[t] EXCEPT !.resized = TRUE] ELSE th[t]]
\* the call returns
Return(r) == [NoOp EXCEPT !.calls = r.calls + 1, !.held = r.held]
\* len and iter go on to the next shard, or return after the last
NextShard(r) ==
    IF r.s + 1 < NumShards
    THEN [r EXCEPT !.s = @ + 1, !.pc = "lock", !.resized = FALSE]
    ELSE Return(r)

OpsStep(th2) ==
    /\ ops' = [ops EXCEPT !.th = th2]
    /\ UNCHANGED <<cfg, debug, ded, ent, lst, pro, grd, lru, rd, built, chain, ptrs,
                   values, layer, now, panicked, hist, approx, ups, scan>>
\* a thread calls an operation; get and the entry operations hash their
\* key to shard s, len and iter start at the first shard
OpStart(t, op, s) ==
    /\ ops.on /\ ops.th[t].pc = "idle" /\ ops.th[t].calls < MaxOpCalls
    /\ op \in {"len", "iter"} => s = 0
    /\ OpsStep([ops.th EXCEPT ![t] = [@ EXCEPT !.op = op, !.pc = "lock",
                                               !.s = s]])
\* get: shards[shard].read() or, when the layer requires it, .write()
GetLock(t) ==
    LET r == ops.th[t]
    IN  /\ ops.on /\ r.op = "get" /\ r.pc = "lock"
        /\ IF ops.behavior = "ReadLockOnly"
           THEN /\ CanRead(ops.th, r.s)
                /\ OpsStep([ops.th EXCEPT ![t] =
                       [r EXCEPT !.pc = "read",
                                 !.held = Acquire(@, r.s, "read")]])
           ELSE /\ CanWrite(ops.th, r.s)
                /\ OpsStep([ops.th EXCEPT ![t] =
                       [r EXCEPT !.pc = "write",
                                 !.held = Acquire(@, r.s, "write")]])
\* get under the read guard: the key is absent or the layer answers
\* Retain and get returns, or the layer answers Remove and the guard is
\* upgraded: the read guard is dropped and the write lock awaited
GetRead(t, rr) ==
    LET r == ops.th[t]
    IN  /\ ops.on /\ r.op = "get" /\ r.pc = "read"
        /\ OpsStep([ops.th EXCEPT ![t] =
               IF rr = "Retain"
               THEN Return([r EXCEPT !.held = Release(@, r.s)])
               ELSE [r EXCEPT !.pc = "upgrade", !.held = Release(@, r.s)]])
\* lock.write() of the upgrade returns
GetUpgrade(t) ==
    LET r == ops.th[t]
    IN  /\ ops.on /\ r.op = "get" /\ r.pc = "upgrade"
        /\ CanWrite(ops.th, r.s)
        /\ OpsStep([ops.th EXCEPT ![t] =
               [r EXCEPT !.pc = "write", !.held = Acquire(@, r.s, "write")]])
\* get under the write guard returns
GetReturn(t) ==
    LET r == ops.th[t]
    IN  /\ ops.on /\ r.op = "get" /\ r.pc = "write"
        /\ OpsStep([Wrote(ops.th, r.s) EXCEPT ![t] =
               Return([r EXCEPT !.held = Release(@, r.s)])])
\* entry: shards[shard_index].write(); the entry keeps the guard
EntryLock(t) ==
    LET r == ops.th[t]
    IN  /\ ops.on /\ r.op \in EntryOps /\ r.pc = "lock"
        /\ CanWrite(ops.th, r.s)
        /\ OpsStep([ops.th EXCEPT ![t] =
               [r EXCEPT !.pc = "entry", !.held = Acquire(@, r.s, "write")]])
\* the entry is consumed or dropped, and its guard with it
EntryDrop(t) ==
    LET r == ops.th[t]
    IN  /\ ops.on /\ r.pc = "entry"
        /\ OpsStep([Wrote(ops.th, r.s) EXCEPT ![t] =
               Return([r EXCEPT !.held = Release(@, r.s)])])
\* len: shard.read().values.len() of the current shard
LenLock(t) ==
    LET r == ops.th[t]
    IN  /\ ops.on /\ r.op = "len" /\ r.pc = "lock"
        /\ CanRead(ops.th, r.s)
        /\ OpsStep([ops.th EXCEPT ![t] =
               [r EXCEPT !.pc = "read", !.held = Acquire(@, r.s, "read")]])
\* the temporary guard drops at the end of the closure
LenNext(t) ==
    LET r == ops.th[t]
    IN  /\ ops.on /\ r.op = "len" /\ r.pc = "read"
        /\ OpsStep([ops.th EXCEPT ![t] =
               NextShard([r EXCEPT !.held = Release(@, r.s)])])
\* iter, start of an attempt: shard.read() to size the table
IterSize(t) ==
    LET r == ops.th[t]
    IN  /\ ops.on /\ r.op = "iter" /\ r.pc = "lock"
        /\ CanRead(ops.th, r.s)
        /\ OpsStep([ops.th EXCEPT ![t] =
               [r EXCEPT !.pc = "read", !.held = Acquire(@, r.s, "read")]])
\* the sizing guard drops at the end of its block
IterSized(t) ==
    LET r == ops.th[t]
    IN  /\ ops.on /\ r.op = "iter" /\ r.pc = "read"
        /\ OpsStep([ops.th EXCEPT ![t] =
               [r EXCEPT !.pc = "chunk", !.resized = FALSE,
                         !.held = Release(@, r.s)]])
\* iter, a chunk: shard.upgradable_read(); a table resized since the
\* sizing restarts the attempt, the guard dropping on the way
IterChunkLock(t) ==
    LET r == ops.th[t]
    IN  /\ ops.on /\ r.op = "iter" /\ r.pc = "chunk"
        /\ CanUpgradable(ops.th, r.s)
        /\ OpsStep([ops.th EXCEPT ![t] =
               IF r.resized THEN [r EXCEPT !.pc = "lock", !.resized = FALSE]
               ELSE [r EXCEPT !.pc = "scan",
                              !.held = Acquire(@, r.s, "upread")]])
\* iter under the upgradable guard: every iter_read answers Retain and
\* the guard drops with the chunk, or one answers Remove and the guard is
\* upgraded
IterScan(t, rr) ==
    LET r == ops.th[t]
    IN  /\ ops.on /\ r.op = "iter" /\ r.pc = "scan"
        /\ OpsStep([ops.th EXCEPT ![t] =
               IF rr = "Retain"
               THEN NextShard([r EXCEPT !.held = Release(@, r.s)])
               ELSE [r EXCEPT !.pc = "upgrade"]])
\* the upgrade of the upgradable guard returns once the readers left
IterUpgrade(t) ==
    LET r == ops.th[t]
    IN  /\ ops.on /\ r.op = "iter" /\ r.pc = "upgrade"
        /\ Holding(ops.th, r.s, "read") = {}
        /\ OpsStep([ops.th EXCEPT ![t] =
               [r EXCEPT !.pc = "write",
                         !.held = Acquire(Release(@, r.s), r.s, "write")]])
\* the chunk ends under the write guard
IterChunkEnd(t) ==
    LET r == ops.th[t]
    IN  /\ ops.on /\ r.op = "iter" /\ r.pc = "write"
        /\ OpsStep([Wrote(ops.th, r.s) EXCEPT ![t] =
               NextShard([r EXCEPT !.held = Release(@, r.s)])])

\* every step of thread t inside a call
OpRuns(t) ==
    \/ GetLock(t)
    \/ \E rr \in {"Retain", "Remove"} : GetRead(t, rr)
    \/ GetUpgrade(t)
    \/ GetReturn(t)
    \/ EntryLock(t)
    \/ EntryDrop(t)
    \/ LenLock(t)
    \/ LenNext(t)
    \/ IterSize(t)
    \/ IterSized(t)
    \/ IterChunkLock(t)
    \/ \E rr \in {"Retain", "Remove"} : IterScan(t, rr)
    \/ IterUpgrade(t)
    \/ IterChunkEnd(t)
\* a cache whose layer has either read-lock behaviour, no call running
InitOps ==
    /\ Aside({"ops"})
    /\ \E b \in {"ReadLockOnly", "RequireWriteLock"} :
          ops = [on |-> TRUE, behavior |-> b, th |-> [t \in Threads |-> NoOp]]
NextOps ==
    \/ \E t \in Threads, op \in EntryOps \cup {"get", "len", "iter"},
          s \in ShardIds : OpStart(t, op, s)
    \/ \E t \in Threads : OpRuns(t)
\* the locks are fair and entries are dropped: a thread whose next step
\* stays possible takes it
SpecOps ==
    InitOps /\ [][NextOps]_vars /\ \A t \in Threads : WF_vars(OpRuns(t))

(* ------- lib.rs: Entry::mutate and the operations built on it --------- *)
EntThreads == 1..MutThreads
\* the operations that go through an Entry when PREFER_LOCKED is false
WriteIfOps == {"or_insert", "or_insert_with"}
MutateOps == WriteIfOps \cup {"write", "remove_if", "upsert"}
\* a thread outside a call
NoMutate == [pc |-> "idle", op |-> "none", examined |-> NoPtr,
             attempt |-> "None", tries |-> 0, disturbed |-> 0, res |-> NoPtr]

\* the Mutate each operation starts its loop with
Initial(op) == IF op = "remove_if" THEN "Remove" ELSE "Write"
\* the function each operation hands to mutate, asked with the attempt
\* carried so far and the value the entry holds: write_if keeps a Write
\* when its predicate (current.is_none() for or_insert) accepts, turns it
\* into None otherwise, and is unreachable!() on any other attempt; write
\* passes the attempt on; remove_if asks its predicate about the current
\* value; upsert always tries its Write
Desired(op, attempt, examined, pred) ==
    CASE op \in WriteIfOps ->
            IF attempt # "Write" THEN "unreachable"
            ELSE IF examined = NoPtr THEN "Write" ELSE "None"
      [] op = "write" -> attempt
      [] op = "remove_if" -> IF examined # NoPtr /\ pred THEN "Remove" ELSE "None"
      [] OTHER -> "Write"

\* Entry::try_mutate: the mutation lands only if the table still holds
\* the pointer the entry loaded; a rejected mutation comes back to the
\* caller and the entry holds the pointer stored by now.  A Mutate::None
\* met by a changed table is rejected likewise, or answered with the
\* pointer stored by now, as the store implements it
EntryTryMutate(e, examined, desired) ==
    IF desired = "None"
    THEN IF e.slot = examined \/ e.reading = "fresh"
         THEN [ok |-> TRUE, out |-> "None", ptr |-> e.slot, slot |-> e.slot]
         ELSE [ok |-> FALSE, out |-> "None", ptr |-> e.slot, slot |-> e.slot]
    ELSE IF e.slot # examined
    THEN [ok |-> FALSE, out |-> desired, ptr |-> e.slot, slot |-> e.slot]
    ELSE IF desired = "Write"
    THEN [ok |-> TRUE,
          out |-> IF examined = NoPtr THEN "Inserted" ELSE "Replaced",
          ptr |-> e.next, slot |-> e.next]
    ELSE IF examined = NoPtr
    THEN [ok |-> TRUE, out |-> "None", ptr |-> NoPtr, slot |-> NoPtr]
    ELSE [ok |-> TRUE, out |-> "Removed", ptr |-> examined, slot |-> NoPtr]

\* what each operation makes of the Mutated it got: write_if hands on the
\* pointer of None, Inserted and Replaced, and or_insert unwraps it; write
\* and upsert take Inserted and Replaced; remove_if takes Removed and None
Finished(c, r) ==
    CASE c.op \in WriteIfOps ->
            IF r.out = "Removed" \/ r.ptr = NoPtr
            THEN [c EXCEPT !.pc = "panicked"]
            ELSE [c EXCEPT !.pc = "done", !.res = r.ptr]
      [] c.op \in {"write", "upsert"} ->
            IF r.out \in {"Inserted", "Replaced"}
            THEN [c EXCEPT !.pc = "done", !.res = r.ptr]
            ELSE [c EXCEPT !.pc = "panicked"]
      [] OTHER ->
            IF r.out = "Removed" THEN [c EXCEPT !.pc = "done", !.res = r.ptr]
            ELSE IF r.out = "None" THEN [c EXCEPT !.pc = "done", !.res = NoPtr]
            ELSE [c EXCEPT !.pc = "panicked"]

\* a loop that takes every answer of try_mutate for a rejection
SpinOnOk(c, r) ==
    [c EXCEPT !.attempt = r.out, !.examined = r.ptr, !.tries = @ + 1]
\* the match in the loop of Entry::mutate (and of Entry::upsert): Ok returns
\* the Mutated, Err carries the rejected mutation into the next turn
MutateTurn(c, r) ==
    IF r.ok THEN Finished(c, r)
    ELSE [c EXCEPT !.attempt = r.out, !.examined = r.ptr, !.tries = @ + 1]

\* the threads of the other calls saw the table change under them
Disturb(th, t, changed) ==
    [u \in EntThreads |->
        IF u # t /\ changed /\ th[u].pc = "loaded"
        THEN [th[u] EXCEPT !.disturbed = @ + 1] ELSE th[u]]

\* self.entry(key): the entry loads the pointer stored for the key;
\* or_insert_with returns it at once when there is one
MutateEntry(t, op) ==
    /\ ent.on /\ ent.th[t].pc = "idle" /\ ent.calls < MaxMutCalls
    /\ ent' = [ent EXCEPT
            !.calls = @ + 1,
            !.th[t] = [NoMutate EXCEPT
                !.pc = IF op = "or_insert_with" /\ ent.slot # NoPtr
                       THEN "done" ELSE "loaded",
                !.op = op, !.examined = ent.slot, !.attempt = Initial(op),
                !.res = IF op = "or_insert_with" THEN ent.slot ELSE NoPtr]]
    /\ UNCHANGED <<cfg, debug, ded, ops, lst, pro, grd, lru, rd, built, chain, ptrs, values, layer, now, panicked, hist, approx, ups, scan>>

\* one turn of the loop: the function is asked with the carried attempt
\* and the entry's value, try_mutate is called with its answer; upsert
\* returns the current pointer when its merge declines
MutateTry(t, pred) ==
    /\ ent.on /\ ent.th[t].pc = "loaded"
    /\ ent.next <= MaxMutCalls + 1 /\ ent.th[t].tries <= MaxMutCalls
    /\ LET c == ent.th[t]
           d == Desired(c.op, c.attempt, c.examined, pred)
           r == EntryTryMutate(ent, c.examined, d)
       IN  IF c.op = "upsert" /\ c.examined # NoPtr /\ ~pred
           THEN ent' = [ent EXCEPT !.th[t] = [c EXCEPT !.pc = "done",
                                                       !.res = c.examined]]
           ELSE IF d = "unreachable"
           THEN ent' = [ent EXCEPT !.th[t] = [c EXCEPT !.pc = "panicked"]]
           ELSE ent' = [ent EXCEPT
                    !.slot = IF r.ok THEN r.slot ELSE @,
                    !.next = IF r.ok /\ r.out \in {"Inserted", "Replaced"}
                             THEN @ + 1 ELSE @,
                    !.log = IF r.ok /\ r.out # "None"
                            THEN Append(@, [by |-> t, op |-> c.op,
                                            out |-> r.out, ptr |-> r.ptr])
                            ELSE @,
                    !.th = [Disturb(ent.th, t, r.ok /\ r.slot # ent.slot)
                            EXCEPT ![t] = MutateTurn(c, r)]]
    /\ UNCHANGED <<cfg, debug, ded, ops, lst, pro, grd, lru, rd, built, chain, ptrs, values, layer, now, panicked, hist, approx, ups, scan>>

\* the caller has its pointer and the thread is free for another call
MutateReturn(t) ==
    /\ ent.on /\ ent.th[t].pc = "done"
    /\ ent' = [ent EXCEPT !.th[t] = NoMutate]
    /\ UNCHANGED <<cfg, debug, ded, ops, lst, pro, grd, lru, rd, built, chain, ptrs, values, layer, now, panicked, hist, approx, ups, scan>>

\* one key, absent at first, shared by the threads
InitMutate ==
    /\ Aside({"ent"})
    /\ \E rd0 \in {"retry", "fresh"} :
          ent = [on |-> TRUE, reading |-> rd0, slot |-> NoPtr, next |-> 1,
                 calls |-> 0, log |-> <<>>,
                 th |-> [t \in EntThreads |-> NoMutate]]
NextMutate ==
    \/ \E t \in EntThreads, op \in MutateOps : MutateEntry(t, op)
    \/ \E t \in EntThreads, pred \in BOOLEAN : MutateTry(t, pred)
    \/ \E t \in EntThreads : MutateReturn(t)
\* a thread inside the loop is scheduled again
SpecMutate ==
    InitMutate /\ [][NextMutate]_vars
        /\ \A t \in EntThreads : WF_vars(\E pred \in BOOLEAN : MutateTry(t, pred))

(* --------- load/dedup.rs: the deduplicating loaders, one key ----------- *)
DedupTasks == 1..NumTasks
\* Wakers::default(): the mutex holds Option::default(), which is None
NoSlab == [some |-> FALSE, regs |-> {}]
\* a task outside load
NoTask == [pc |-> "idle", seen |-> "Vacant", val |-> 0, wid |-> 0,
           key |-> FALSE, under |-> "none", lval |-> 0, woken |-> FALSE,
           res |-> 0]
VacantSlot == [st |-> "Vacant", wid |-> 0, val |-> 0]

\* wakers.drain().for_each(Waker::wake): the registered tasks are woken
Wake(th, regs) ==
    [u \in DedupTasks |-> IF u \in regs THEN [th[u] EXCEPT !.woken = TRUE]
                          ELSE th[u]]
\* DedupInner::insert_loaded_value by task t: a Waiting placeholder is
\* replaced by Complete and its wakers, if it has any, are taken and woken;
\* a Complete value is replaced; a vacant entry is filled
insert_loaded_value(d, t) ==
    LET w == d.slot.wid
        took == IF d.slot.st = "Waiting" /\ d.wakers[w].some
                THEN d.wakers[w].regs ELSE {}
        th == Wake(d.th, took)
    IN  [d EXCEPT
            !.slot = [st |-> "Complete", wid |-> 0, val |-> d.th[t].lval],
            !.wakers = IF d.slot.st = "Waiting"
                       THEN [@ EXCEPT ![w] = NoSlab] ELSE @,
            !.th = [th EXCEPT ![t] = [th[t] EXCEPT !.pc = "done",
                                                   !.under = "none",
                                                   !.res = d.th[t].lval]]]

\* one turn of the loop in WaitIntrusiveFut::poll: register when there is
\* no waker key and the wakers hold a slab, else look the key up: Complete
\* is Ready; the placeholder the future knows with a slab refreshes the
\* waker and is Pending; any other placeholder is taken up and the loop
\* goes on; a vacant entry gets a new placeholder and load is called again,
\* which finds that placeholder and waits on it
WaitIntrusivePoll(d, t) ==
    LET c == d.th[t]
    IN  IF ~c.key /\ c.wid # 0 /\ d.wakers[c.wid].some
        THEN [d EXCEPT !.wakers[c.wid].regs = @ \cup {t},
                       !.th[t] = [c EXCEPT !.key = TRUE, !.pc = "asleep"]]
        ELSE IF d.slot.st = "Complete"
        THEN [d EXCEPT !.th[t] = [c EXCEPT !.key = FALSE, !.pc = "done",
                                           !.res = d.slot.val]]
        ELSE IF d.slot.st = "Waiting"
        THEN IF ~c.key
             THEN [d EXCEPT !.th[t] = [c EXCEPT !.wid = d.slot.wid,
                                                !.pc = "spin"]]
             ELSE IF d.slot.wid = c.wid
             THEN IF d.wakers[c.wid].some
                  THEN [d EXCEPT !.th[t] = [c EXCEPT !.pc = "asleep"]]
                  ELSE [d EXCEPT !.th[t] = [c EXCEPT !.pc = "spin"]]
             ELSE [d EXCEPT !.th[t] = [c EXCEPT !.key = FALSE,
                                                !.wid = d.slot.wid,
                                                !.pc = "spin"]]
        ELSE [d EXCEPT !.slot = [st |-> "Waiting", wid |-> d.nwid, val |-> 0],
                       !.wakers[d.nwid] = NoSlab,
                       !.nwid = @ + 1,
                       !.th[t] = [c EXCEPT !.key = FALSE, !.wid = d.nwid,
                                           !.pc = "spin"]]

\* DedupLoadIntrusive::load's future polled: an occupant seen Complete is
\* the answer; one seen Waiting is waited on; the task that made the
\* placeholder polls select(load, replace): the underlying load first,
\* whose value insert_loaded_value stores, then, if that is pending, the
\* wait on its own placeholder
IntrusivePoll(d, t, ready) ==
    LET c == d.th[t]
        started == [d EXCEPT !.loads = @ + 1,
                             !.th[t] = [c EXCEPT !.lval = d.loads + 1,
                                                 !.under = "pending"]]
        again == [d EXCEPT !.th[t] = [c EXCEPT !.woken = FALSE]]
    IN  IF c.pc = "called"
        THEN IF c.seen = "Complete"
             THEN [d EXCEPT !.th[t] = [c EXCEPT !.pc = "done", !.res = c.val]]
             ELSE IF c.seen = "Waiting" THEN WaitIntrusivePoll(d, t)
             ELSE IF ready THEN insert_loaded_value(started, t)
             ELSE WaitIntrusivePoll(started, t)
        ELSE IF c.pc = "asleep"
        THEN IF c.under = "ready" THEN insert_loaded_value(again, t)
             ELSE WaitIntrusivePoll(again, t)
        ELSE WaitIntrusivePoll(d, t)

\* the end of DedupLoad::load for the task that loaded: the value goes
\* into the cache, the placeholder's wakers are taken, unwrapped and woken
PlainLoaded(d, t) ==
    LET c == d.th[t]
        w == d.wakers[c.wid]
        stored == [d EXCEPT !.slot = [st |-> "Complete", wid |-> 0,
                                      val |-> c.lval]]
    IN  IF ~w.some
        THEN [stored EXCEPT !.th[t] = [c EXCEPT !.pc = "panicked",
                                                !.under = "none"]]
        ELSE [stored EXCEPT
                !.wakers[c.wid] = NoSlab,
                !.th = [Wake(d.th, w.regs) EXCEPT ![t] =
                            [c EXCEPT !.pc = "done", !.under = "none",
                                      !.res = c.lval]]]
\* WaitFut::poll: register when the wakers hold a slab, else look the key
\* up in the cache: an occupant is Ready, a vacant entry is todo!()
WaitPoll(d, t) ==
    LET c == d.th[t]
    IN  IF ~c.key /\ d.wakers[c.wid].some
        THEN [d EXCEPT !.wakers[c.wid].regs = @ \cup {t},
                       !.th[t] = [c EXCEPT !.key = TRUE, !.pc = "asleep"]]
        ELSE IF d.slot.st = "Complete"
        THEN [d EXCEPT !.th[t] = [c EXCEPT !.pc = "done", !.res = d.slot.val]]
        ELSE [d EXCEPT !.th[t] = [c EXCEPT !.key = FALSE, !.pc = "panicked"]]
\* DedupLoad::load's future polled: the pointer cache.get found is the
\* answer; else the load cache's entry: an occupant is waited on, a vacant
\* entry gets the placeholder and the task awaits the underlying load
PlainPoll(d, t, ready) ==
    LET c == d.th[t]
        started == [d EXCEPT
                      !.lslot = [st |-> "Waiting", wid |-> d.nwid],
                      !.wakers[d.nwid] = NoSlab,
                      !.nwid = @ + 1,
                      !.loads = @ + 1,
                      !.th[t] = [c EXCEPT !.wid = d.nwid,
                                          !.lval = d.loads + 1,
                                          !.under = "pending"]]
        again == [d EXCEPT !.th[t] = [c EXCEPT !.woken = FALSE]]
    IN  IF c.pc = "called"
        THEN IF c.seen = "Complete"
             THEN [d EXCEPT !.th[t] = [c EXCEPT !.pc = "done", !.res = c.val]]
             ELSE IF d.lslot.st = "Waiting"
             THEN WaitPoll([d EXCEPT !.th[t].wid = d.lslot.wid], t)
             ELSE IF ready THEN PlainLoaded(started, t)
             ELSE [started EXCEPT !.th[t].pc = "asleep"]
        ELSE IF c.under = "ready" THEN PlainLoaded(again, t)
        ELSE IF c.under = "pending"
        THEN [again EXCEPT !.th[t].pc = "asleep"]
        ELSE WaitPoll(again, t)

\* load(key) is called: DedupLoadIntrusive looks the entry up and fills a
\* vacant one with a Waiting placeholder and fresh wakers; DedupLoad asks
\* cache.get; the future is handed to the executor
LoadCall(t) ==
    /\ ded.on /\ ded.th[t].pc = "idle" /\ ded.calls < MaxLoadCalls
    /\ LET made == ded.variant = "intrusive" /\ ded.slot.st = "Vacant"
       IN  ded' = [ded EXCEPT
              !.calls = @ + 1,
              !.slot = IF made THEN [st |-> "Waiting", wid |-> ded.nwid,
                                     val |-> 0]
                       ELSE @,
              !.wakers = IF made THEN [@ EXCEPT ![ded.nwid] = NoSlab] ELSE @,
              !.nwid = IF made THEN @ + 1 ELSE @,
              !.th[t] = [NoTask EXCEPT
                  !.pc = "called", !.seen = ded.slot.st,
                  !.val = ded.slot.val,
                  !.wid = IF made THEN ded.nwid ELSE ded.slot.wid]]
    /\ UNCHANGED <<cfg, debug, ent, ops, lst, pro, grd, lru, rd, built, chain, ptrs, values, layer, now, panicked, hist, approx, ups, scan>>

\* the executor polls the task: its first poll, a turn of the loop it is
\* in, or the poll after a wake
TaskPoll(t, ready) ==
    /\ ded.on
    /\ \/ ded.th[t].pc \in {"called", "spin"}
       \/ ded.th[t].pc = "asleep" /\ ded.th[t].woken
    /\ ded.nwid <= MaxWakers
    /\ ded' = IF ded.variant = "intrusive" THEN IntrusivePoll(ded, t, ready)
              ELSE PlainPoll(ded, t, ready)
    /\ UNCHANGED <<cfg, debug, ent, ops, lst, pro, grd, lru, rd, built, chain, ptrs, values, layer, now, panicked, hist, approx, ups, scan>>

\* the underlying loader has its value and wakes the task awaiting it
UnderlyingReady(t) ==
    /\ ded.on /\ ded.th[t].under = "pending"
    /\ ded.th[t].pc \in {"spin", "asleep"}
    /\ ded' = [ded EXCEPT !.th[t].under = "ready", !.th[t].woken = TRUE]
    /\ UNCHANGED <<cfg, debug, ent, ops, lst, pro, grd, lru, rd, built, chain, ptrs, values, layer, now, panicked, hist, approx, ups, scan>>

\* the caller has its pointer; Drop for the wait future gives back its
\* waker key
TaskReturn(t) ==
    /\ ded.on /\ ded.th[t].pc = "done"
    /\ ded' = [ded EXCEPT
            !.wakers = [w \in DOMAIN @ |->
                          IF ded.th[t].key /\ w = ded.th[t].wid /\ @[w].some
                          THEN [@[w] EXCEPT !.regs = @ \ {t}] ELSE @[w]],
            !.th[t] = NoTask]
    /\ UNCHANGED <<cfg, debug, ent, ops, lst, pro, grd, lru, rd, built, chain, ptrs, values, layer, now, panicked, hist, approx, ups, scan>>

\* the cache under the loader drops the completed value of the key
CacheEvict ==
    /\ ded.on /\ ded.slot.st = "Complete" /\ ded.evicts < MaxEvicts
    /\ ded' = [ded EXCEPT !.slot = VacantSlot, !.evicts = @ + 1]
    /\ UNCHANGED <<cfg, debug, ent, ops, lst, pro, grd, lru, rd, built, chain, ptrs, values, layer, now, panicked, hist, approx, ups, scan>>

\* one key, not cached; each task runs on a thread of its own
InitDedup ==
    /\ Aside({"ded"})
    /\ \E v \in {"intrusive", "plain"} :
          ded = [on |-> TRUE, variant |-> v, slot |-> VacantSlot,
                 lslot |-> [st |-> "Vacant", wid |-> 0],
                 wakers |-> [w \in 1..(MaxWakers + 1) |-> NoSlab],
                 nwid |-> 1, loads |-> 0, calls |-> 0, evicts |-> 0,
                 th |-> [t \in DedupTasks |-> NoTask]]
NextDedup ==
    \/ \E t \in DedupTasks : LoadCall(t)
    \/ \E t \in DedupTasks, ready \in BOOLEAN : TaskPoll(t, ready)
    \/ \E t \in DedupTasks : UnderlyingReady(t)
    \/ \E t \in DedupTasks : TaskReturn(t)
    \/ CacheEvict
\* the executor polls a task that can be polled, and the underlying
\* loader comes back
SpecDedup ==
    InitDedup /\ [][NextDedup]_vars
        /\ \A t \in DedupTasks :
              /\ WF_vars(\E ready \in BOOLEAN : TaskPoll(t, ready))
              /\ WF_vars(UnderlyingReady(t))

TypeOK == /\ panicked \in BOOLEAN
          /\ \A s \in ShardIds : values[s] \subseteq 1..Len(ptrs)

(* ------------------------------ properties ---------------------------- *)
\* a call returned Some(pointer) whose key is k
FoundKey(st, k) == ~st.panic /\ st.res # NoPtr /\ st.ptrs[st.res].key = k
\* a call returned None
FoundNone(st) == ~st.panic /\ st.res = NoPtr
\* the pointers the layer state of shard s tracks: its queues and the bag
\* of pointers waiting to leave the table
Tracked(ly, s) ==
    ListValues(ly[s].q0) \cup ListValues(ly[s].q1)
    \cup Range(ly[s].touched_removed)
\* no table and no layer shard holds p
NotHeld(st, p) ==
    \A s \in ShardIds : p \notin st.values[s] /\ p \notin Tracked(st.layer, s)
\* the keys of a sequence are pairwise distinct
Distinct(sq) == \A i, j \in 1..Len(sq) : sq[i] = sq[j] => i = j
\* the pointer stored under key k (NoPtr when absent)
Stored(k) == Find(CurStore, IF StoreKind = "local" THEN 0 ELSE hash_and_shard(k), k)

\* the store after insert(v): unless that insert evicted, get(v.key())
\* returns a pointer with the key
InsertThenGet(st, k) ==
    ~st.panic /\ (st.evicted # <<>> \/ FoundKey(cache_get(st, k), k))
\* C1: in every reachable state, after insert(v) returns, an immediately
\* following get(v.key()) returns Some pointer with that key, unless the
\* insert evicted.
C1_InsertThenGetFinds ==
    (~panicked /\ Len(ptrs) < PtrBound) =>
        \A k \in Keys, v \in Vals : InsertThenGet(insert(CurStore, k, v, 0), k)

\* the store after remove(k): when it returned Some(p), p is held nowhere
\* and get(k) returns None
RemoveThenGet(st, k) ==
    (~st.panic /\ st.res # NoPtr) =>
        (NotHeld(st, st.res) /\ FoundNone(cache_get(st, k)))
\* C2: whenever remove(k) returns Some, an immediately following get(k)
\* returns None and neither the table nor any layer shard holds the removed
\* pointer.
C2_RemovedIsGone ==
    ~panicked => \A k \in Keys : RemoveThenGet(remove(CurStore, k), k)

\* the keys the tables hold
StoredKeys == {ptrs[p].key : p \in UNION {values[s] : s \in ShardIds}}
\* C3: in every quiescent state len() is the number of distinct keys
\* stored: a stored key sits in the shard its hash selects, and once in that
\* shard's table.
C3_LenCountsDistinctKeys ==
    /\ \A s \in ShardIds : \A p \in values[s] : hash_and_shard(ptrs[p].key) = s
    /\ \A s \in ShardIds : \A p, q \in values[s] :
            ptrs[p].key = ptrs[q].key => p = q
    /\ len = Cardinality(StoredKeys)
\* two shards hold a key and a key has been written twice or removed
C3_Witness ==
    /\ ~panicked
    /\ \E s, t \in ShardIds : s # t /\ values[s] # {} /\ values[t] # {}
    /\ Len(ptrs) > len

\* C4: between operations the pointers a shard's layer state tracks are the
\* pointers of that shard's table.
C4_LayerTracksTable ==
    ~panicked => \A s \in ShardIds : Tracked(layer, s) = values[s]

\* C5: under the least-recently-inserted policy with capacity C, inserting
\* C+n distinct keys evicts the first n keys in order, get finds the last C
\* keys and none of the first n, and len() is C.
C5_LriEvictsOldest ==
    (cfg = "local_lri" /\ ~panicked /\ ~hist.mut /\ Distinct(hist.ins)
     /\ Len(hist.ins) > Capacity) =>
        /\ hist.ev = SubSeq(hist.ins, 1, Len(hist.ins) - Capacity)
        /\ len = Capacity
        /\ \A i \in 1..Len(hist.ins) :
              IF i <= Len(hist.ins) - Capacity
              THEN FoundNone(cache_get(CurStore, hist.ins[i]))
              ELSE FoundKey(cache_get(CurStore, hist.ins[i]), hist.ins[i])

\* the store after inserting a new key behind the read of k1: exactly the
\* pointer of k2 was evicted and get still finds k1
EvictsSecond(st, k1, k2) ==
    /\ ~st.panic
    /\ KeysOf(st.ptrs, st.evicted) = <<k2>>
    /\ FoundKey(cache_get(st, k1), k1)
\* the store after the read of k1: the read found k1, and the insert of
\* any further key of the shard evicts k2
ReadThenInsert(st, k1, k2, more) ==
    /\ FoundKey(st, k1)
    /\ \A kn \in more : EvictsSecond(insert(st, kn, 1, 0), k1, k2)
\* C6: under the least-recently-touched layer with capacity C >= 2, after
\* inserting k1..kC into one shard and reading k1, the insert of a new key
\* of that shard evicts k2, and get still returns k1.
C6_LrtKeepsTouched ==
    (cfg = "sync_lrt" /\ ~panicked /\ ~hist.mut /\ Capacity >= 2
     /\ Len(hist.ins) = Capacity /\ Distinct(hist.ins)
     /\ \A i \in 1..Len(hist.ins) :
            hash_and_shard(hist.ins[i]) = hash_and_shard(hist.ins[1])) =>
        ReadThenInsert(cache_get(CurStore, hist.ins[1]), hist.ins[1],
                       hist.ins[2],
                       {kn \in Keys \ Range(hist.ins) :
                            /\ Len(ptrs) < PtrBound
                            /\ hash_and_shard(kn) = hash_and_shard(hist.ins[1])})

\* the store after get(k) of the stored pointer p whose deadline t is
\* still ahead: p is returned; with t reached: None, p left the table and
\* the table is one entry smaller
GetHonoursDeadline(st, k, p) ==
    IF now < ptrs[p].exp THEN FoundKey(st, k)
    ELSE /\ FoundNone(st)
         /\ \A s \in ShardIds : p \notin st.values[s]
         /\ SumUpTo(st.values, NumShards - 1) = len - 1
\* C7: with the ExpireAt wrapper, get returns an entry of deadline t at
\* every clock time < t; at every clock time >= t it returns None, the entry
\* is removed and len() is one less.
C7_ExpireAtDeadline ==
    (cfg = "expire_at" /\ ~panicked) =>
        \A k \in ExpireKeys :
            Stored(k) # NoPtr =>
                GetHonoursDeadline(cache_get(CurStore, k), k, Stored(k))

\* a lookup of the stored pointer p that ended in st: an expired p was
\* not returned and has left the table, a live p was returned
LookupHonoursExpiry(st, k, p) ==
    IF is_expired(ptrs[p])
    THEN FoundNone(st) /\ \A s \in ShardIds : p \notin st.values[s]
    ELSE FoundKey(st, k) /\ st.res = p
\* C8: with the Expire wrapper, looking up a key whose value is expired
\* yields a vacant entry and removes it lazily, and a value that is not
\* expired is returned, on the locked_entry path and on the entry path.
C8_ExpireLookup ==
    (cfg = "expire" /\ ~panicked) =>
        \A k \in ExpireKeys :
            Stored(k) # NoPtr =>
                /\ LookupHonoursExpiry(locked_lookup(CurStore, k), k, Stored(k))
                /\ LookupHonoursExpiry(cache_get(CurStore, k), k, Stored(k))

\* C9: reads of one entry that fall inside one window forward at most one
\* touch to the inner policy, also when they run on several threads: of
\* any two forwarded touches, the later one took its clock reading at least
\* a window after the earlier one's, so no span shorter than the window
\* holds both reads.
C9_OneTouchPerWindow ==
    \A i, j \in 1..Len(approx.fwd) :
        i < j => /\ approx.fwd[j].now - approx.fwd[i].now >= Window
                 /\ approx.fwd[j].done - approx.fwd[i].now >= Window
\* two touches were forwarded and a reader lost the exchange to another
C9_Witness ==
    /\ Len(approx.fwd) >= 2
    /\ \E t \in Threads :
          /\ approx.th[t].pc = "cas"
          /\ approx.th[t].last # approx.stamp

\* the store after the inserts that follow the promotion of p: p was not
\* evicted and get returns it
Survives(st, p, k) ==
    ~st.panic /\ p \in st.values[0] /\ FoundKey(cache_get(st, k), k)
\* the store after the read that reaches the promotion threshold: p moved
\* from G0 to G1, and stays through the inserts of further keys
Promotes(st, p, k, more) ==
    /\ ~st.panic
    /\ ~st.ptrs[p].g0
    /\ p \in ListValues(st.layer[0].q1)
    /\ p \notin ListValues(st.layer[0].q0)
    /\ \A kn \in more : Survives(insert(st, kn, 1, 0), p, k)
\* C10: under the generational policy with promotion after three touches,
\* the third read of an inserted entry moves it from G0 to G1, and further
\* inserts do not evict it; get still returns it.
C10_PromotedSurvives ==
    (cfg = "local_gen" /\ ~panicked) =>
        \A k \in Keys :
            (/\ Stored(k) # NoPtr
             /\ ptrs[Stored(k)].g0
             /\ ptrs[Stored(k)].promo = PromoteAfter - 1) =>
                Promotes(cache_get(CurStore, k), Stored(k), k,
                         {kn \in Keys \ {k} : Len(ptrs) < PtrBound})

\* every accepted write replaced the pointer its merge had examined
WritesExamined(lg) == \A i \in 1..Len(lg) : lg[i].replaced = lg[i].examined
\* no accepted write is lost: its pointer is stored, or a later accepted
\* write examined and replaced it
NoneLost(lg) ==
    \A i \in 1..Len(lg) :
        \/ lg[i].new \in values[hash_and_shard(lg[i].key)]
        \/ \E j \in (i + 1)..Len(lg) : lg[j].examined = lg[i].new
\* the last accepted write to key k, NoPtr when there is none
LastWritten(lg, k) ==
    LET ws == {i \in 1..Len(lg) : lg[i].key = k}
    IN  IF ws = {} THEN NoPtr
        ELSE lg[CHOOSE i \in ws : \A j \in ws : j <= i].new
\* with every call returned, get(k) finds the last pointer written to k
FinalGet(st, lg, k) ==
    LastWritten(lg, k) # NoPtr =>
        (FoundKey(st, k) /\ st.res = LastWritten(lg, k))
\* C11: upserts of one key from several threads are serialized: each
\* accepted write replaces the pointer its merge examined, no accepted
\* write is lost, a key is stored at most once, and once the calls have
\* returned get(K) finds the last pointer written
C11_UpsertsSerialised ==
    ups.on =>
        /\ WritesExamined(ups.log)
        /\ NoneLost(ups.log)
        /\ \A s \in ShardIds : \A p, q \in values[s] :
              ptrs[p].key = ptrs[q].key => p = q
        /\ (~panicked /\ \A t \in Threads : ups.th[t].pc = "idle") =>
              \A k \in Keys : FinalGet(cache_get(CurStore, k), ups.log, k)

\* what the finished iteration yields for the shard: no pointer twice, and
\* every pointer that stayed stored from its start to its end
YieldsOnceAndAll(it) ==
    /\ Distinct(it.pointers)
    /\ it.since \subseteq Range(it.pointers)
\* C12: for each shard iter() yields no pointer more than once and yields
\* every pointer stored in the shard during the whole iteration, whatever
\* writers insert or remove between chunks and even when the table is
\* resized or rehashed meanwhile
C12_IterYieldsOnceAndAll ==
    (scan.on /\ scan.it.pc = "done") => YieldsOnceAndAll(scan.it)

\* the call that gave st returned p, and so do n more or_insert(v) after it
RECURSIVE ReturnsSame(_, _, _, _, _)
ReturnsSame(p, st, k, v, n) ==
    /\ ~st.panic /\ st.res = p
    /\ (n = 0 \/ ReturnsSame(p, or_insert(st, k, v, 0), k, v, n - 1))
\* the store after a first or_insert(v): the calls after it return its pointer
OrInsertAgain(st, k, v) ==
    ~st.panic /\ ReturnsSame(st.res, or_insert(st, k, v, 0), k, v, OrInsertCalls - 2)
\* C13: or_insert(v) called N times in a row for one key, nothing removed
\* or expired in between, returns the identical pointer N times
C13_OrInsertIdempotent ==
    (~panicked /\ Len(ptrs) < PtrBound) =>
        \A k \in Keys, v \in Vals :
            OrInsertAgain(or_insert(CurStore, k, v, 0), k, v)

\* the store after a call on stored key k that must change nothing: the
\* call returned the stored pointer, the tables are as they were and
\* nothing was evicted
KeptAsIs(st, k) ==
    /\ ~st.panic /\ st.res = Stored(k)
    /\ st.values = values /\ st.evicted = <<>>
\* C14: an upsert whose merge declines, on a key that is stored, returns
\* the stored pointer and changes nothing: the pointer stored for every
\* key and len() stay, nothing is evicted
C14_DeclinedUpsertIsNoOp ==
    (~panicked /\ Len(ptrs) < PtrBound) =>
        \A k \in Keys, v \in Vals :
            Stored(k) # NoPtr => KeptAsIs(upsert(CurStore, k, v, 0, FALSE), k)

\* the store after remove_if(k, pred) with pred answering f: a stored
\* pointer pred accepts is returned and gone from the table; in every
\* other case the call returns None and table and layer hold what they held
RemovedOnlyIf(st, k, f) ==
    /\ ~st.panic
    /\ IF Stored(k) # NoPtr /\ f
       THEN st.res = Stored(k) /\ \A s \in ShardIds : st.res \notin st.values[s]
       ELSE /\ st.res = NoPtr
            /\ st.values = values
            /\ \A s \in ShardIds : Tracked(st.layer, s) = Tracked(layer, s)
\* C15: remove_if(k, pred) removes and returns the pointer of k only when
\* k is stored and pred holds of its value; otherwise it returns None and
\* leaves the table and the layer's pointer sets as they were
C15_RemoveIfOnlyWhenAccepted ==
    ~panicked =>
        \A k \in Keys, f \in BOOLEAN :
            RemovedOnlyIf(remove_if(CurStore, k, f), k, f)

\* C16: for every total capacity c >= 1 and shard count s the builder is
\* given, each shard's table and layer shard are made with capacity
\* ceil(c / s)
C16_PerShardCapacity ==
    (built.on /\ built.per_shard # <<>> /\ built.capacity # <<>>) =>
        built.per_shard[1] = DivCeil(built.capacity[1], built.shards)

\* how many calls of the operation in progress went to target for pointer p
CallsTo(target, p) ==
    Cardinality({i \in 1..Len(chain.calls) : chain.calls[i] = <<target, p>>})
\* an eviction by one child reached the other child and the map once each,
\* and the other child dropped the pointer
EvictionCrossed(e) ==
    LET other == IF e[1] = "a" THEN "b" ELSE "a"
    IN  /\ CallsTo(other, e[2]) = 1
        /\ CallsTo("map", e[2]) = 1
        /\ e[2] \notin ChildTracks(chain[other])
\* C17: after AndThenShard::write and after AndThenShard::remove both
\* children track the same set of pointers; what either child evicted
\* during the write was removed from the other child once and from the map
\* once; the pointer just written is tracked by both
C17_AndThenChildrenAgree ==
    (chain.on /\ chain.op \in {"write", "remove"}
        /\ "other" \notin {chain.a.kind, chain.b.kind}) =>
        /\ ~chain.panic
        /\ ChildTracks(chain.a) = ChildTracks(chain.b)
        /\ \A i \in 1..Len(chain.evicted) : EvictionCrossed(chain.evicted[i])
        /\ chain.op = "write" =>
              chain.ptr \in ChildTracks(chain.a) \cap ChildTracks(chain.b)

\* OccupiedEntry::replace(v) through the occupied entry le
ReplacedBy(le, v) == OccupiedReplace(le, le.shard, le.occupied, v, 0)
\* what a replace through entry le of key k has to leave in st: a new
\* pointer, returned and alone under k; the old one held nowhere; as many
\* keys as before unless the layer's write evicted, and nothing evicted
\* left in the table
ReplaceLeaves(k, v, le, st) ==
    /\ ~st.panic
    /\ st.res \notin 1..Len(ptrs) /\ st.res \in st.values[le.shard]
    /\ st.ptrs[st.res].key = k /\ st.ptrs[st.res].val = v
    /\ \A q \in st.values[le.shard] : st.ptrs[q].key = k => q = st.res
    /\ NotHeld(st, le.occupied)
    /\ \/ Cardinality(st.values[le.shard]) = Cardinality(values[le.shard])
       \/ st.evicted # <<>>
    /\ \A i \in 1..Len(st.evicted) : st.evicted[i] \notin st.values[le.shard]
\* C18: after OccupiedEntry::replace(v) on key k, k maps to the new pointer
\* only, the old pointer is in neither the table nor the layer, the call
\* returned the new pointer, and the shard has as many keys as before
\* unless the layer's write evicted another entry, which then left the
\* table too
C18_ReplaceSwapsPointer ==
    \A k \in Keys, v \in Vals :
        (~panicked /\ ~InnerLockedEntry(CurStore, k).panic
                   /\ InnerLockedEntry(CurStore, k).occupied # NoPtr) =>
            ReplaceLeaves(k, v, InnerLockedEntry(CurStore, k),
                          ReplacedBy(InnerLockedEntry(CurStore, k), v))

\* SyncCache::entry on a key whose stored pointer the layer's read answers
\* with Remove
EntryOnRemove(k) ==
    EntryAfterRead([ShardRead(CurStore, hash_and_shard(k), Stored(k))
                    EXCEPT !.read = "Remove"],
                   hash_and_shard(k), Stored(k))
\* the insert through vacant entry le stores value v under key k
InsertStores(le, k, v, st) ==
    /\ ~st.panic
    /\ st.res \notin 1..Len(ptrs)
    /\ Find(st, le.shard, k) = st.res
    /\ st.ptrs[st.res].val = v
\* the layer's read of the pointer stored under k yields a result
ReadYields(k) ==
    /\ Stored(k) # NoPtr
    /\ ~ShardRead(CurStore, hash_and_shard(k), Stored(k)).panic
\* C19: entry(key) on a stored key is Occupied when the layer's read
\* yields Retain; when it yields Remove the pointer leaves the layer shard
\* and the table, the entry is Vacant, and an insert through it stores the
\* new value for the key
C19_EntryFollowsRead ==
    \A k \in Keys :
        (~panicked /\ ReadYields(k)) =>
            /\ ~entry(CurStore, k).panic
            /\ entry(CurStore, k).read = "Retain"
            /\ entry(CurStore, k).occupied = Stored(k)
            /\ Find(entry(CurStore, k), hash_and_shard(k), k) = Stored(k)
            /\ ~EntryOnRemove(k).panic
            /\ EntryOnRemove(k).occupied = NoPtr
            /\ NotHeld(EntryOnRemove(k), Stored(k))
            /\ \A v \in Vals :
                  InsertStores(EntryOnRemove(k), k, v,
                               VacantEntryInsert(EntryOnRemove(k),
                                                 hash_and_shard(k), k, v, 0))
\* a key has been written twice through its occupied entry, its pointer is
\* read without a panic, and a read answering Remove would leave the key
\* absent behind a vacant entry
C19_Witness ==
    /\ ~panicked
    /\ \E k \in Keys :
          /\ ReadYields(k)
          /\ Stored(k) > 1 /\ ptrs[Stored(k) - 1].key \in {0, k}
          /\ entry(CurStore, k).occupied = Stored(k)
          /\ EntryOnRemove(k).occupied = NoPtr
          /\ Find(EntryOnRemove(k), hash_and_shard(k), k) = NoPtr

\* the positions in the handler's layer calls that are `what` of pointer p
ToldAt(st, what, p) == {i \in 1..Len(st.told) : st.told[i] = <<what, p>>}
\* no touch of p follows a remove of p
NoTouchAfterRemove(st, p) ==
    \A i \in ToldAt(st, "remove", p), j \in ToldAt(st, "touch", p) : j < i
\* the lookup through entry le: dropped, it touched the pointer once; taken
\* by replace or by remove, it touched the pointer at most before handing
\* the layer its remove
TouchedPerLookup(le) ==
    /\ Cardinality(ToldAt(OccupiedIntoPointer(le, le.occupied),
                          "touch", le.occupied)) = 1
    /\ ToldAt(OccupiedRemove(le, le.shard, le.occupied),
              "remove", le.occupied) # {}
    /\ NoTouchAfterRemove(OccupiedRemove(le, le.shard, le.occupied),
                          le.occupied)
    /\ \A v \in Vals :
          /\ ToldAt(ReplacedBy(le, v), "remove", le.occupied) # {}
          /\ NoTouchAfterRemove(ReplacedBy(le, v), le.occupied)
\* C20: an entry(key) lookup that finds a retained occupied entry and is
\* dropped without replace or remove delivers one touch of the pointer to
\* the eviction layer; a lookup consumed by replace or remove delivers no
\* touch of the old pointer after the layer was told to remove it
C20_OneTouchPerLookup ==
    \A k \in Keys :
        (~panicked /\ ~InnerLockedEntry(CurStore, k).panic
                   /\ InnerLockedEntry(CurStore, k).occupied # NoPtr) =>
            TouchedPerLookup(InnerLockedEntry(CurStore, k))
\* a key inserted, looked up and still stored, whose next dropped lookup
\* touches its pointer
C20_Witness ==
    /\ ~panicked
    /\ \E k \in Keys :
          /\ Stored(k) # NoPtr
          /\ InnerLockedEntry(CurStore, k).occupied = Stored(k)
          /\ OccupiedIntoPointer(InnerLockedEntry(CurStore, k), Stored(k)).told
                = <<(<<"touch", Stored(k)>>)>>
          /\ Len(ptrs) > 1

\* C21: when threads get one key while the layer answers Remove for its
\* pointer, that pointer is unlinked and handed to layer.remove once in
\* all, and it is gone once the readers that saw Remove have returned; a
\* reader unlinks only the pointer it read, never another one stored
\* under the key meanwhile
C21_RemoveOnceByIdentity ==
    rd.on =>
        /\ \A p \in 1..MaxReadPtrs :
              /\ rd.unlinked[p] <= 1 /\ rd.removed[p] = rd.unlinked[p]
              /\ p = rd.table => rd.unlinked[p] = 0
              /\ (/\ p \in rd.condemned
                  /\ \A t \in Threads : rd.th[t].ptr # p) =>
                      p # rd.table /\ rd.removed[p] = 1
        /\ \A i \in 1..Len(rd.log) : rd.log[i][1] = rd.log[i][2]
\* two readers saw Remove for one pointer, a writer stored another pointer
\* under the key before they got the write lock, and both have returned
C21_Witness ==
    /\ rd.on
    /\ \E p \in rd.condemned :
          /\ rd.removed[p] = 1 /\ rd.table \notin {NoPtr, p}
          /\ \A t \in Threads : rd.th[t].pc = "idle"
    /\ rd.log = <<>>

\* C22: a touch that get forwards after dropping its read lock, for an
\* entry another thread removed or evicted meanwhile, is a no-op: it does
\* not panic and leaves the queue as it was
C22_StaleTouchIsNoOp ==
    (lru.on /\ lru.last.stale) => ~lru.last.panic /\ ~lru.last.moved

\* C23: try_upgrade never blocks its caller, whatever guard the layer's
\* touch was handed: no thread is left waiting inside it while another
\* thread holds the lock
C23_TryUpgradeNeverBlocks ==
    grd.on =>
        \A t \in 1..LockThreads :
            /\ grd.th[t].pc = "waiting" => LockFree(grd.th)
            /\ grd.th[t].pc = "upgrading" => ReadHeld(grd.th) = {}

\* C25: in a composed read whose first child upgraded the shared guard
\* and answered, the second child's read also completes, on the guard
\* the first child left in the cell as a write guard, without a panic
C25_SecondReadUnderWrite ==
    (chain.on /\ chain.op = "read" /\ chain.a.kind = "lrt"
        /\ Len(chain.reads) >= 1)
    => /\ ~chain.panic
       /\ chain.reads = <<"a", "b">>
       /\ chain.cell = "Write"

\* C26: once touches of a G0 entry whose promote predicate fired have
\* taken the write guard, the entry has been migrated exactly once: no
\* panic, one migration begun however many touches got there, the entry
\* out of G0 and, while the table holds it, in G1 or waiting in
\* touched_removed
C26_MigratesExactlyOnce ==
    pro.on =>
        \A p \in 1..Len(ptrs) :
            pro.seen[p] + pro.began[p] > 0 =>
                /\ ~panicked
                /\ pro.began[p] = 1
                /\ p \notin ListValues(layer[0].q0)
                /\ p \in values[0] =>
                      p \in ListValues(layer[0].q1)
                           \cup Range(layer[0].touched_removed)

\* the longest prefix of at most n entries whose deadline has passed
RECURSIVE ExpiredPrefix(_, _, _, _)
ExpiredPrefix(sq, exp, t, n) ==
    IF sq = <<>> \/ n = 0 \/ exp[Head(sq)] > t THEN <<>>
    ELSE <<Head(sq)>> \o ExpiredPrefix(Tail(sq), exp, t, n - 1)
\* C27: an insert on the expiring queue takes out exactly the longest
\* head prefix of entries whose expire_at <= now, at most eight, reports
\* them as evicted in order, and leaves all others in the queue
C27_DrainsExpiredPrefix ==
    (lst.on /\ lst.op = "insert") =>
        LET gone == ExpiredPrefix(lst.before, lst.exp, lst.now, DrainBatch)
        IN  /\ ~lst.panic
            /\ lst.evicted = gone
            /\ ListValues(lst.q) = Range(lst.before) \ Range(gone)

\* the indexes of the occupied slots
OccupiedSlots(l) == {i \in 0..(Len(l.nodes) - 1) : NodeAt(l, i).occ}
\* C29: len() is the number of occupied slots
C29_LenCountsOccupied ==
    (lst.on /\ ~lst.panic) =>
        ListLen(lst.q) = Cardinality(OccupiedSlots(lst.q))

\* the values met following next links from slot i, at most n of them
RECURSIVE Walk(_, _, _)
Walk(l, i, n) ==
    IF i = NoIndex \/ n = 0 \/ ~InSlab(l, i) THEN <<>>
    ELSE <<NodeAt(l, i).value>> \o Walk(l, NodeAt(l, i).next, n - 1)
\* C30: head and tail are unset on an empty list and occupied otherwise,
\* links of occupied slots lead to occupied slots, and the walk from head
\* meets every occupied slot once, in push/touch order, ending at tail
C30_LinksFormTheOrder ==
    (lst.on /\ ~lst.panic) =>
        LET l == lst.q
            occupied == OccupiedSlots(l)
        IN  /\ occupied = {} => l.head = NoIndex /\ l.tail = NoIndex
            /\ occupied # {} => l.head \in occupied /\ l.tail \in occupied
            /\ \A i \in occupied :
                  /\ NodeAt(l, i).prev \in occupied \cup {NoIndex}
                  /\ NodeAt(l, i).next \in occupied \cup {NoIndex}
            /\ Walk(l, l.head, Len(l.nodes) + 1) = lst.order
            /\ occupied # {} => NodeAt(l, l.tail).value = lst.order[Len(lst.order)]

\* C28: a layer shard made with capacity C tracks at most C pointers,
\* whatever writes and removes came before
C28_TracksAtMostCapacity ==
    (chain.on /\ ~chain.panic) =>
        /\ Cardinality(ChildTracks(chain.a)) <= chain.capacity
        /\ Cardinality(ChildTracks(chain.b)) <= chain.capacity

\* every thread holds the guard of at most one shard, and none between
\* calls
OneShardAtATime ==
    ops.on =>
        \A t \in Threads :
            /\ Cardinality(ops.th[t].held) <= 1
            /\ ops.th[t].pc = "idle" => ops.th[t].held = {}
\* C24: no operation holds the locks of two shards at once, each has
\* released its lock when it returns or its entry is dropped, and under
\* fair locks every call that was started ends
C24_OneLockAndProgress ==
    /\ []OneShardAtATime
    /\ \A t \in Threads : (ops.th[t].pc # "idle") ~> (ops.th[t].pc = "idle")
\* an iterator waits to upgrade its guard while a get on the same shard
\* holds its read guard
C24_Witness ==
    /\ ops.on
    /\ \E t, u \in Threads :
          /\ ops.th[t].op = "iter" /\ ops.th[t].pc = "upgrade"
          /\ ops.th[u].op = "get" /\ ops.th[u].pc = "read"
          /\ ops.th[u].s = ops.th[t].s
          /\ ops.th[u].calls > 0

\* C31: the key handed to the constructor at the push identifies the
\* element while it is in the list, on a fresh and on a reused slot:
\* get(key) finds the element and remove(key) takes it out
C31_KeyFindsItsElement ==
    (lst.on /\ ~lst.panic) =>
        \A p \in ListValues(lst.q) :
            /\ ListGet(lst.q, lst.key[p]) = p
            /\ ~ListRemove(lst.q, lst.key[p]).panic
            /\ ListRemove(lst.q, lst.key[p]).value = p

\* C32: with the key of an element that has left the list, remove
\* answers None without a panic and leaves the list as it is
C32_StaleKeyIsRejected ==
    (lru.on /\ ~lru.panic) =>
        \A p \in 1..(lru.next - 1) :
            p \notin ListValues(lru.q) =>
                LET r == IndexListRemove(lru.q, lru.key[p])
                IN  ~r.panic /\ r.value = NoPtr /\ r.list = lru.q

\* the Bag children of the composed shard
BagSides == {side \in {"a", "b"} : chain[side].kind = "random"}
\* C33: every element of a Bag carries the key of the position it is
\* stored at, also after it was swapped into a vacated position, and a
\* removal by a stored element's key takes out that element
C33_BagKeysArePositions ==
    chain.on =>
        \A side \in BagSides :
            \A i \in 1..Len(chain[side].bag) :
                /\ chain.pv[chain[side].bag[i]][side] = i - 1
                /\ BagDoRemove(chain, side,
                               chain.pv[chain[side].bag[i]][side]).taken
                       = chain[side].bag[i]
\* the first element was removed from a Bag of two, and the second one
\* moved into its position
C33_Witness ==
    /\ chain.on /\ chain.op = "remove" /\ chain.ptr = 1
    /\ chain.a.kind = "random" /\ chain.a.bag = <<2>>
    /\ chain.pv[2]["a"] = 0

\* C34: a composed read or iter_read answers Remove exactly when one of
\* the child reads it made answered Remove, and Retain only after both
\* children answered Retain
C34_RemoveIffAChildRemoves ==
    (chain.on /\ chain.op \in {"read", "iter_read"} /\ ~chain.panic) =>
        /\ chain.res = "Remove" <=> "Remove" \in Range(chain.answers)
        /\ chain.res = "Retain" <=> chain.answers = <<"Retain", "Retain">>
\* the first child retained and the second answered Remove
C34_Witness ==
    /\ chain.on /\ chain.op = "read" /\ ~chain.panic
    /\ chain.answers = <<"Retain", "Remove">> /\ chain.res = "Remove"

\* C35: iterating the cache leaves the least-recently-touched order alone:
\* a step of iter that does not remove the pointer completes and leaves the
\* list of every least-recently-touched child as it was, so the victims of
\* the inserts that follow are those they would have been without the
\* iteration
C35_IterKeepsTouchOrder ==
    [][(chain.on /\ chain'.op = "iter_read" /\ chain'.res # "Remove") =>
        /\ ~chain'.panic
        /\ \A side \in {"a", "b"} :
            chain[side].kind = "lrt" =>
                /\ chain'[side].list = chain[side].list
                /\ ListPopHead(chain'[side].list) = ListPopHead(chain[side].list)]_vars
C35_Witness ==
    /\ chain.on /\ chain.op = "iter_read" /\ chain.res = "Retain"
    /\ ~chain.panic
    /\ chain.a.kind = "lrt"
    /\ chain.ptr \in ChildTracks(chain.a)
    /\ Cardinality(ChildTracks(chain.a)) >= 2

\* the mutations of the key that landed so far all came from or_insert
\* and or_insert_with
OrInsertOnly == \A i \in 1..Len(ent.log) : ent.log[i].op \in WriteIfOps
\* C36: threads calling or_insert / or_insert_with for one absent key: no
\* call panics, also beside a thread removing the key; every call returns
\* a pointer that was stored for the key; and while only these calls
\* change the key exactly one value is inserted and every call returns
\* the pointer to it
C36_OneValueForAll ==
    ent.on =>
        /\ \A t \in EntThreads :
              ent.th[t].op \in WriteIfOps => ent.th[t].pc # "panicked"
        /\ \A t \in EntThreads :
              (ent.th[t].op \in WriteIfOps /\ ent.th[t].pc = "done") =>
                  \E i \in 1..Len(ent.log) :
                      /\ ent.log[i].out \in {"Inserted", "Replaced"}
                      /\ ent.log[i].ptr = ent.th[t].res
        /\ OrInsertOnly =>
              /\ Len(ent.log) <= 1
              /\ \A t \in EntThreads :
                    (ent.th[t].op \in WriteIfOps /\ ent.th[t].pc = "done") =>
                        ent.th[t].res = ent.log[1].ptr

\* thread t took a turn of its loop in this step
TookTurn(t) ==
    \/ ent'.th[t].tries # ent.th[t].tries
    \/ ent'.th[t].pc # ent.th[t].pc
HeldFor(st, k) ==
    {p \in UNION {st.values[s] : s \in ShardIds} : st.ptrs[p].key = k}
\* the wrapper's vacant entry for k stands for a stored value that is
\* expired
VacantOverExpired(le) ==
    ~le.panic /\ le.expired # NoPtr /\ is_expired(ptrs[le.expired])
LoadingFor(w) ==
    {t \in DedupTasks : ded.th[t].under # "none" /\ ded.th[t].wid = w}
\* C39: the deduplicating loaders: no call of load panics; while a
\* placeholder for the key is stored at most one underlying load is out
\* for it; and a call that came back returns a value an underlying load
\* produced, the cached one if the key was cached when it looked
C39_OneLoadInFlight ==
    ded.on =>
        /\ \A t \in DedupTasks : ded.th[t].pc # "panicked"
        /\ ded.slot.st = "Waiting" =>
              Cardinality(LoadingFor(ded.slot.wid)) <= 1
        /\ ded.lslot.st = "Waiting" =>
              Cardinality(LoadingFor(ded.lslot.wid)) <= 1
        /\ \A t \in DedupTasks :
              ded.th[t].pc = "done" => ded.th[t].res \in 1..ded.loads

\* task t waits in load for the key
InLoad(t) == ded.th[t].pc \in {"called", "spin", "asleep"}
\* C40: no lost wake-up in the intrusive loader: a task asleep on a
\* placeholder is in that placeholder's wakers or has been woken, a task
\* that polls when the value is Complete takes it, and every task inside
\* load comes back with the value, the underlying loader having answered
C40_NoLostWakeUp ==
    /\ [](ded.on => \A t \in DedupTasks :
            (ded.th[t].pc = "asleep" /\ ded.th[t].key) =>
                \/ ded.th[t].woken
                \/ ded.wakers[ded.th[t].wid].some
                      /\ t \in ded.wakers[ded.th[t].wid].regs)
    /\ \A t \in DedupTasks :
            (ded.on /\ ded.variant = "intrusive" /\ InLoad(t))
                ~> (ded.th[t].pc = "done" \/ ded.evicts > 0)
====
